---- MODULE Spec2Model ----
(***************************************************************************)
(* Model of the maze-chase engine of src/src/dashboard/pacman.py           *)
(* (class PacmanScreen).  The screen object is one record, self, whose     *)
(* fields carry the names of the Python attributes; every method of the    *)
(* engine is an operator from a screen record to the screen record (or,    *)
(* where random.choice is involved, the set of screen records) it leaves.  *)
(* Grid coordinates are 0-based as in the source: self.map[y][x].          *)
(***************************************************************************)
EXTENDS Integers, Sequences, FiniteSets, TLC

(* LEVEL, one tuple of characters per source string *)
LEVEL ==
  <<
    <<"#","#","#","#","#","#","#","#","#","#","#","#","#","#","#","#","#","#","#","#","#","#","#","#","#","#","#","#">>,
    <<"#",".",".",".",".",".",".",".",".",".",".",".",".","#","#",".",".",".",".",".",".",".",".",".",".",".",".","#">>,
    <<"#",".","#","#","#","#",".","#","#","#","#","#",".","#","#",".","#","#","#","#","#",".","#","#","#","#",".","#">>,
    <<"#","o","#","#","#","#",".","#","#","#","#","#",".","#","#",".","#","#","#","#","#",".","#","#","#","#","o","#">>,
    <<"#",".",".",".",".",".",".",".",".",".",".",".",".",".",".",".",".",".",".",".",".",".",".",".",".",".",".","#">>,
    <<"#",".","#","#","#","#",".","#","#",".","#","#","#","#","#","#","#","#",".","#","#",".","#","#","#","#",".","#">>,
    <<"#",".",".",".",".",".",".","#","#",".",".",".",".","#","#",".",".",".",".","#","#",".",".",".",".",".",".","#">>,
    <<"#","#","#","#","#","#",".","#","#","#","#","#"," ","#","#"," ","#","#","#","#","#",".","#","#","#","#","#","#">>,
    <<"#","#","#","#","#","#",".","#"," "," "," "," "," "," "," "," "," "," "," "," ","#",".","#","#","#","#","#","#">>,
    <<"#","#","#","#","#","#",".","#"," ","#","#","#","H","H","H","H","#","#","#"," ","#",".","#","#","#","#","#","#">>,
    <<" "," "," "," "," "," ","."," "," ","#","H"," "," "," "," "," "," ","H","#"," "," ","."," "," "," "," "," "," ">>,
    <<"#","#","#","#","#","#",".","#"," ","#","#","#","=","=","=","=","#","#","#"," ","#",".","#","#","#","#","#","#">>,
    <<"#","#","#","#","#","#",".","#"," "," "," "," "," "," "," "," "," "," "," "," ","#",".","#","#","#","#","#","#">>,
    <<"#","#","#","#","#","#",".","#"," ","#","#","#","#","#","#","#","#","#","#"," ","#",".","#","#","#","#","#","#">>,
    <<"#",".",".",".",".",".",".",".",".",".",".",".",".","#","#",".",".",".",".",".",".",".",".",".",".",".",".","#">>,
    <<"#",".","#","#","#","#",".","#","#","#","#","#",".","#","#",".","#","#","#","#","#",".","#","#","#","#",".","#">>,
    <<"#","o",".",".","#","#",".",".",".",".",".",".",".",".",".",".",".",".",".",".",".",".","#","#",".",".","o","#">>,
    <<"#","#","#",".","#","#",".","#","#",".","#","#","#","#","#","#","#","#",".","#","#",".","#","#",".","#","#","#">>,
    <<"#",".",".",".",".",".",".","#","#",".",".",".",".","#","#",".",".",".",".","#","#",".",".",".",".",".",".","#">>,
    <<"#",".",".","#","#","#","#","#","#","#","#","#","#",".",".","#","#","#","#","#","#","#","#","#","#",".",".","#">>,
    <<"#",".",".",".",".",".",".",".",".",".",".",".",".",".",".",".",".",".",".",".",".",".",".",".",".",".",".","#">>,
    <<"#","#","#","#","#","#","#","#","#","#","#","#","#","#","#","#","#","#","#","#","#","#","#","#","#","#","#","#">>
  >>

WALL == "#"
PELLET == "."
POWER == "o"
HOUSE == "H"
GATE == "="
EMPTY == " "

height == Len(LEVEL)
width == Len(LEVEL[1])

Directions == {"up", "down", "left", "right"}

(* the duration schedule of _update_global_mode, and the fixed numbers of the engine *)
schedule == <<58, 166, 58, 166, 42, 166, 42, 99999>>
FRIGHTENED_TICKS == 75
FRUIT_TICKS == 80
PELLET_SCORE == 10
POWER_SCORE == 50
FRUIT_SCORE == 300
GHOST_SCORE == 200
START_LIVES == 3
TUNNEL_ROW == 10
CLYDE_RANGE == 8
fruit_pos == <<14, 10>>

Min(a, b) == IF a < b THEN a ELSE b
Abs(n) == IF n < 0 THEN -n ELSE n

(* class Ghost; color is presentation only and is left out *)
Ghost(name, x, y, mode, released, release_tick) ==
  [name |-> name, x |-> x, y |-> y, home_x |-> x, home_y |-> y,
   mode |-> mode, direction |-> "left", released |-> released,
   frightened_ticks |-> 0, release_tick |-> release_tick]

init_ghosts ==
  << Ghost("Blinky", 14, 10, "chase", TRUE, 0),
     Ghost("Pinky", 13, 10, "home", FALSE, 40),
     Ghost("Inky", 14, 9, "home", FALSE, 90),
     Ghost("Clyde", 15, 10, "home", FALSE, 140) >>

InitialMap == [y \in 0..(height - 1) |-> [x \in 0..(width - 1) |-> LEVEL[y + 1][x + 1]]]

(* row.count(PELLET) + row.count(POWER), summed over the rows of a map *)
CountPellets(m) ==
  Cardinality({p \in (0..(width - 1)) \X (0..(height - 1)) : m[p[2]][p[1]] \in {PELLET, POWER}})

(* PacmanScreen.__init__ *)
NewScreen ==
  [map |-> InitialMap,
   player_x |-> 14, player_y |-> 16, player_dir |-> "left", next_dir |-> "left",
   ghosts |-> init_ghosts,
   tick |-> 0, mode_timer |-> 0, mode_cycle_index |-> 0, global_mode |-> "scatter",
   fruit_visible |-> FALSE, fruit_ticks_left |-> 0,
   fruit_spawned_once |-> FALSE, fruit_spawned_twice |-> FALSE,
   ghost_combo |-> 0, score |-> 0, lives |-> START_LIVES,
   game_over |-> FALSE, level_cleared |-> FALSE,
   pellet_count |-> 0, initial_pellet_count |-> 0]

dir_delta(direction) ==
  IF direction = "up" THEN <<0, -1>>
  ELSE IF direction = "down" THEN <<0, 1>>
  ELSE IF direction = "left" THEN <<-1, 0>>
  ELSE <<1, 0>>

reverse_dir(direction) ==
  CASE direction = "up" -> "down"
    [] direction = "down" -> "up"
    [] direction = "left" -> "right"
    [] direction = "right" -> "left"

(* can_move with the gate open to the player *)
can_move_GateOpen(m, x, y, direction, is_ghost) ==
  LET nx == x + dir_delta(direction)[1]
      ny == y + dir_delta(direction)[2]
  IN  IF ~is_ghost /\ ny = TUNNEL_ROW /\ (nx < 0 \/ nx >= width) THEN TRUE
      ELSE IF ny < 0 \/ ny >= height \/ nx < 0 \/ nx >= width THEN FALSE
      ELSE IF m[ny][nx] = WALL THEN FALSE
      ELSE TRUE

(* can_move with the tunnel openings open to ghosts too *)
can_move_GhostTunnel(m, x, y, direction, is_ghost) ==
  LET nx == x + dir_delta(direction)[1]
      ny == y + dir_delta(direction)[2]
  IN  IF ny = TUNNEL_ROW /\ (nx < 0 \/ nx >= width) THEN TRUE
      ELSE IF ny < 0 \/ ny >= height \/ nx < 0 \/ nx >= width THEN FALSE
      ELSE IF m[ny][nx] = WALL THEN FALSE
      ELSE IF m[ny][nx] = GATE /\ ~is_ghost THEN FALSE
      ELSE TRUE

can_move(m, x, y, direction, is_ghost) ==
  LET nx == x + dir_delta(direction)[1]
      ny == y + dir_delta(direction)[2]
  IN  IF ~is_ghost /\ ny = TUNNEL_ROW /\ (nx < 0 \/ nx >= width) THEN TRUE
      ELSE IF ny < 0 \/ ny >= height \/ nx < 0 \/ nx >= width THEN FALSE
      ELSE IF m[ny][nx] = WALL THEN FALSE
      ELSE IF m[ny][nx] = GATE /\ ~is_ghost THEN FALSE
      ELSE TRUE

(* wrap_player landing one tile short of the right edge *)
wrap_player_OffByOne(s) ==
  IF s.player_y = TUNNEL_ROW /\ s.player_x < 0 THEN [s EXCEPT !.player_x = width - 2]
  ELSE IF s.player_y = TUNNEL_ROW /\ s.player_x >= width THEN [s EXCEPT !.player_x = 0]
  ELSE s

wrap_player(s) ==
  IF s.player_y = TUNNEL_ROW /\ s.player_x < 0 THEN [s EXCEPT !.player_x = width - 1]
  ELSE IF s.player_y = TUNNEL_ROW /\ s.player_x >= width THEN [s EXCEPT !.player_x = 0]
  ELSE s

tile(m, x, y) ==
  IF y < 0 \/ y >= height \/ x < 0 \/ x >= width THEN WALL ELSE m[y][x]

(* reset_level that leaves the second fruit trigger as it is *)
reset_level_KeepTrigger(s, reset_score) ==
  LET r == [s EXCEPT
              !.map = InitialMap,
              !.player_x = 14, !.player_y = 16,
              !.player_dir = "left", !.next_dir = "left",
              !.ghosts = init_ghosts,
              !.tick = 0, !.mode_timer = 0, !.mode_cycle_index = 0,
              !.global_mode = "scatter",
              !.fruit_visible = FALSE, !.fruit_ticks_left = 0,
              !.fruit_spawned_once = FALSE,
              !.ghost_combo = 0, !.game_over = FALSE, !.level_cleared = FALSE,
              !.pellet_count = CountPellets(InitialMap),
              !.initial_pellet_count = CountPellets(InitialMap)]
  IN  IF reset_score THEN [r EXCEPT !.score = 0, !.lives = START_LIVES] ELSE r

reset_level(s, reset_score) ==
  LET r == [s EXCEPT
              !.map = InitialMap,
              !.player_x = 14, !.player_y = 16,
              !.player_dir = "left", !.next_dir = "left",
              !.ghosts = init_ghosts,
              !.tick = 0, !.mode_timer = 0, !.mode_cycle_index = 0,
              !.global_mode = "scatter",
              !.fruit_visible = FALSE, !.fruit_ticks_left = 0,
              !.fruit_spawned_once = FALSE, !.fruit_spawned_twice = FALSE,
              !.ghost_combo = 0, !.game_over = FALSE, !.level_cleared = FALSE,
              !.pellet_count = CountPellets(InitialMap),
              !.initial_pellet_count = CountPellets(InitialMap)]
  IN  IF reset_score THEN [r EXCEPT !.score = 0, !.lives = START_LIVES] ELSE r

(* update_global_mode that flips one tick late *)
update_global_mode_Late(s) ==
  LET t == s.mode_timer + 1
  IN  IF t > schedule[Min(s.mode_cycle_index, Len(schedule) - 1) + 1]
      THEN [s EXCEPT !.mode_timer = 0,
                     !.mode_cycle_index = Min(s.mode_cycle_index + 1, Len(schedule) - 1),
                     !.global_mode = IF s.global_mode = "scatter" THEN "chase" ELSE "scatter"]
      ELSE [s EXCEPT !.mode_timer = t]

update_global_mode(s) ==
  LET t == s.mode_timer + 1
  IN  IF t >= schedule[Min(s.mode_cycle_index, Len(schedule) - 1) + 1]
      THEN [s EXCEPT !.mode_timer = 0,
                     !.mode_cycle_index = Min(s.mode_cycle_index + 1, Len(schedule) - 1),
                     !.global_mode = IF s.global_mode = "scatter" THEN "chase" ELSE "scatter"]
      ELSE [s EXCEPT !.mode_timer = t]

(* frighten that adds to the countdown a frightened ghost has left *)
frighten_Extend(g) ==
  IF g.mode \notin {"home", "eaten"}
  THEN [g EXCEPT !.mode = "frightened", !.frightened_ticks = @ + FRIGHTENED_TICKS]
  ELSE g

(* the power-pellet branch of _move_player: the loop over self.ghosts *)
frighten(g) ==
  IF g.mode \notin {"home", "eaten"}
  THEN [g EXCEPT !.mode = "frightened", !.frightened_ticks = FRIGHTENED_TICKS]
  ELSE g

(* player_step that forgets a queued direction it could not apply *)
player_step_DropPending(s) ==
  LET s1 == IF can_move(s.map, s.player_x, s.player_y, s.next_dir, FALSE)
            THEN [s EXCEPT !.player_dir = s.next_dir]
            ELSE [s EXCEPT !.next_dir = s.player_dir]
  IN  IF can_move(s1.map, s1.player_x, s1.player_y, s1.player_dir, FALSE)
      THEN wrap_player([s1 EXCEPT !.player_x = @ + dir_delta(s1.player_dir)[1],
                                  !.player_y = @ + dir_delta(s1.player_dir)[2]])
      ELSE s1

(* _move_player up to the wrap: direction resolution and the move *)
player_step(s) ==
  LET s1 == IF can_move(s.map, s.player_x, s.player_y, s.next_dir, FALSE)
            THEN [s EXCEPT !.player_dir = s.next_dir] ELSE s
  IN  IF can_move(s1.map, s1.player_x, s1.player_y, s1.player_dir, FALSE)
      THEN wrap_player([s1 EXCEPT !.player_x = @ + dir_delta(s1.player_dir)[1],
                                  !.player_y = @ + dir_delta(s1.player_dir)[2]])
      ELSE s1

(* tile_effect that also empties a house tile the player steps on *)
tile_effect_ClearsHouse(s) ==
  LET t == tile(s.map, s.player_x, s.player_y)
  IN  IF t = PELLET
      THEN [s EXCEPT !.map[s.player_y][s.player_x] = EMPTY,
                     !.score = @ + PELLET_SCORE,
                     !.pellet_count = @ - 1]
      ELSE IF t = POWER
      THEN [s EXCEPT !.map[s.player_y][s.player_x] = EMPTY,
                     !.score = @ + POWER_SCORE,
                     !.pellet_count = @ - 1,
                     !.ghost_combo = 0,
                     !.ghosts = [i \in DOMAIN s.ghosts |-> frighten(s.ghosts[i])]]
      ELSE IF t = HOUSE
      THEN [s EXCEPT !.map[s.player_y][s.player_x] = EMPTY]
      ELSE s

(* tile_effect without the counter decrement of the power-pellet branch *)
tile_effect_NoPowerCount(s) ==
  LET t == tile(s.map, s.player_x, s.player_y)
  IN  IF t = PELLET
      THEN [s EXCEPT !.map[s.player_y][s.player_x] = EMPTY,
                     !.score = @ + PELLET_SCORE,
                     !.pellet_count = @ - 1]
      ELSE IF t = POWER
      THEN [s EXCEPT !.map[s.player_y][s.player_x] = EMPTY,
                     !.score = @ + POWER_SCORE,
                     !.ghost_combo = 0,
                     !.ghosts = [i \in DOMAIN s.ghosts |-> frighten(s.ghosts[i])]]
      ELSE s

(* tile_effect with a power pellet scored as a pellet *)
tile_effect_PowerAsPellet(s) ==
  LET t == tile(s.map, s.player_x, s.player_y)
  IN  IF t = PELLET
      THEN [s EXCEPT !.map[s.player_y][s.player_x] = EMPTY,
                     !.score = @ + PELLET_SCORE,
                     !.pellet_count = @ - 1]
      ELSE IF t = POWER
      THEN [s EXCEPT !.map[s.player_y][s.player_x] = EMPTY,
                     !.score = @ + PELLET_SCORE,
                     !.pellet_count = @ - 1,
                     !.ghost_combo = 0,
                     !.ghosts = [i \in DOMAIN s.ghosts |-> frighten(s.ghosts[i])]]
      ELSE s

(* the rest of _move_player: the effect of the tile the player is on *)
tile_effect(s) ==
  LET t == tile(s.map, s.player_x, s.player_y)
  IN  IF t = PELLET
      THEN [s EXCEPT !.map[s.player_y][s.player_x] = EMPTY,
                     !.score = @ + PELLET_SCORE,
                     !.pellet_count = @ - 1]
      ELSE IF t = POWER
      THEN [s EXCEPT !.map[s.player_y][s.player_x] = EMPTY,
                     !.score = @ + POWER_SCORE,
                     !.pellet_count = @ - 1,
                     !.ghost_combo = 0,
                     !.ghosts = [i \in DOMAIN s.ghosts |-> frighten(s.ghosts[i])]]
      ELSE s

move_player(s) == tile_effect(player_step(s))

scatter_target(ghost_name) ==
  CASE ghost_name = "Blinky" -> <<width - 2, 1>>
    [] ghost_name = "Pinky" -> <<1, 1>>
    [] ghost_name = "Inky" -> <<width - 2, height - 2>>
    [] ghost_name = "Clyde" -> <<1, height - 2>>
    [] OTHER -> <<width - 2, 1>>

(* chase_target that sends Clyde after the player from distance 8 on *)
chase_target_ClydeFromEight(s, gs, g) ==
  LET px == s.player_x
      py == s.player_y
      dx == dir_delta(s.player_dir)[1]
      dy == dir_delta(s.player_dir)[2]
  IN  IF g.name = "Blinky" THEN <<px, py>>
      ELSE IF g.name = "Pinky" THEN <<px + dx * 4, py + dy * 4>>
      ELSE IF g.name = "Inky"
      THEN LET blinky == gs[1]
               ax == px + dx * 2
               ay == py + dy * 2
               vx == ax - blinky.x
               vy == ay - blinky.y
           IN  <<ax + vx, ay + vy>>
      ELSE IF Abs(g.x - px) + Abs(g.y - py) >= CLYDE_RANGE THEN <<px, py>>
      ELSE scatter_target("Clyde")

(* chase_target that takes Inky's point two tiles ahead of Blinky *)
chase_target_AheadOfBlinky(s, gs, g) ==
  LET px == s.player_x
      py == s.player_y
      dx == dir_delta(s.player_dir)[1]
      dy == dir_delta(s.player_dir)[2]
  IN  IF g.name = "Blinky" THEN <<px, py>>
      ELSE IF g.name = "Pinky" THEN <<px + dx * 4, py + dy * 4>>
      ELSE IF g.name = "Inky"
      THEN LET blinky == gs[1]
               ax == blinky.x + dir_delta(blinky.direction)[1] * 2
               ay == blinky.y + dir_delta(blinky.direction)[2] * 2
               vx == ax - blinky.x
               vy == ay - blinky.y
           IN  <<ax + vx, ay + vy>>
      ELSE IF Abs(g.x - px) + Abs(g.y - py) > CLYDE_RANGE THEN <<px, py>>
      ELSE scatter_target("Clyde")

(* gs is self.ghosts as the loop of _move_ghosts has left it so far *)
chase_target(s, gs, g) ==
  LET px == s.player_x
      py == s.player_y
      dx == dir_delta(s.player_dir)[1]
      dy == dir_delta(s.player_dir)[2]
  IN  IF g.name = "Blinky" THEN <<px, py>>
      ELSE IF g.name = "Pinky" THEN <<px + dx * 4, py + dy * 4>>
      ELSE IF g.name = "Inky"
      THEN LET blinky == gs[1]
               ax == px + dx * 2
               ay == py + dy * 2
               vx == ax - blinky.x
               vy == ay - blinky.y
           IN  <<ax + vx, ay + vy>>
      ELSE IF Abs(g.x - px) + Abs(g.y - py) > CLYDE_RANGE THEN <<px, py>>
      ELSE scatter_target("Clyde")

(* every value random.randint can give _random_target *)
random_target == (1..(width - 2)) \X (1..(height - 2))

(* ghost_options without the exclusion of the reverse direction *)
ghost_options_Reverse(m, g, target) ==
  LET allowed(d) == can_move(m, g.x, g.y, d, TRUE)
      kept == SelectSeq(<<"up", "left", "down", "right">>, allowed)
  IN  [i \in 1..Len(kept) |->
         LET nx == g.x + dir_delta(kept[i])[1]
             ny == g.y + dir_delta(kept[i])[2]
         IN  [nx |-> nx, ny |-> ny, direction |-> kept[i],
              dist |-> Abs(target[1] - nx) + Abs(target[2] - ny)]]

(* ghost_options that lets an eaten ghost reverse as a frightened one may *)
ghost_options_EatenReverse(m, g, target) ==
  LET allowed(d) == /\ ~(g.mode \notin {"frightened", "eaten"} /\ d = reverse_dir(g.direction))
                    /\ can_move(m, g.x, g.y, d, TRUE)
      kept == SelectSeq(<<"up", "left", "down", "right">>, allowed)
  IN  [i \in 1..Len(kept) |->
         LET nx == g.x + dir_delta(kept[i])[1]
             ny == g.y + dir_delta(kept[i])[2]
         IN  [nx |-> nx, ny |-> ny, direction |-> kept[i],
              dist |-> Abs(target[1] - nx) + Abs(target[2] - ny)]]

(* the options list of _step_ghost_toward, in the order the loop appends *)
ghost_options(m, g, target) ==
  LET allowed(d) == /\ ~(g.mode # "frightened" /\ d = reverse_dir(g.direction))
                    /\ can_move(m, g.x, g.y, d, TRUE)
      kept == SelectSeq(<<"up", "left", "down", "right">>, allowed)
  IN  [i \in 1..Len(kept) |->
         LET nx == g.x + dir_delta(kept[i])[1]
             ny == g.y + dir_delta(kept[i])[2]
         IN  [nx |-> nx, ny |-> ny, direction |-> kept[i],
              dist |-> Abs(target[1] - nx) + Abs(target[2] - ny)]]

(* first_sorted that takes the last of the nearest options *)
first_sorted_LastTie(options) ==
  options[CHOOSE i \in 1..Len(options) :
            \A j \in 1..Len(options) :
               \/ options[j].dist > options[i].dist
               \/ (options[j].dist = options[i].dist /\ j <= i)]

(* options[0] after the stable options.sort(key=dist) *)
first_sorted(options) ==
  options[CHOOSE i \in 1..Len(options) :
            \A j \in 1..Len(options) :
               \/ options[j].dist > options[i].dist
               \/ (options[j].dist = options[i].dist /\ j >= i)]

(* the elements of options random.choice may return: any of them, or, when *)
(* the outcome is prescribed, the one with direction pick                  *)
random_choice(options, pick) ==
  {options[i] : i \in {j \in 1..Len(options) : pick = "any" \/ options[j].direction = pick}}

(* the ghosts _step_ghost_toward can leave: one, or one per random.choice *)
step_ghost_toward(m, g, target, pick) ==
  LET options == ghost_options(m, g, target)
      go(o) == [g EXCEPT !.x = o.nx, !.y = o.ny, !.direction = o.direction]
  IN  IF Len(options) = 0 THEN {g}
      ELSE IF g.mode = "frightened" THEN {go(o) : o \in random_choice(options, pick)}
      ELSE {go(first_sorted(options))}

(* release that waits for the tick after the threshold *)
release_Late(s, g) ==
  IF ~g.released /\ s.tick > g.release_tick
  THEN [g EXCEPT !.released = TRUE, !.mode = s.global_mode]
  ELSE g

(* release that sets the flag and leaves the mode *)
release_KeepsMode(s, g) ==
  IF ~g.released /\ s.tick >= g.release_tick
  THEN [g EXCEPT !.released = TRUE]
  ELSE g

(* the release test at the head of the loop body of _move_ghosts *)
release(s, g) ==
  IF ~g.released /\ s.tick >= g.release_tick
  THEN [g EXCEPT !.released = TRUE, !.mode = s.global_mode]
  ELSE g

(* countdown that stands still in the ticks in which a frightened ghost    *)
(* does not move                                                           *)
countdown_WhenMoving(s, g) ==
  IF g.mode = "frightened" /\ g.frightened_ticks > 0 /\ s.tick % 2 = 0
  THEN IF g.frightened_ticks - 1 = 0
       THEN [g EXCEPT !.frightened_ticks = 0, !.mode = s.global_mode]
       ELSE [g EXCEPT !.frightened_ticks = @ - 1]
  ELSE g

(* the frightened countdown of _move_ghosts *)
countdown(s, g) ==
  IF g.mode = "frightened" /\ g.frightened_ticks > 0
  THEN IF g.frightened_ticks - 1 = 0
       THEN [g EXCEPT !.frightened_ticks = 0, !.mode = s.global_mode]
       ELSE [g EXCEPT !.frightened_ticks = @ - 1]
  ELSE g

(* ghost_targets that sends an eaten ghost to its scatter corner *)
ghost_targets_EatenScatter(s, gs, g) ==
  IF g.mode \in {"eaten", "scatter"} THEN {scatter_target(g.name)}
  ELSE IF g.mode = "chase" THEN {chase_target(s, gs, g)}
  ELSE IF g.mode = "frightened" THEN random_target
  ELSE {<<g.home_x, g.home_y>>}

ghost_targets(s, gs, g) ==
  IF g.mode = "eaten" THEN {<<g.home_x, g.home_y>>}
  ELSE IF g.mode = "scatter" THEN {scatter_target(g.name)}
  ELSE IF g.mode = "chase" THEN {chase_target(s, gs, g)}
  ELSE IF g.mode = "frightened" THEN random_target
  ELSE {<<g.home_x, g.home_y>>}

(* arrive_home that hands a ghost with countdown left back as frightened *)
arrive_home_StillFrightened(s, g) ==
  IF g.mode = "eaten" /\ <<g.x, g.y>> = <<g.home_x, g.home_y>>
  THEN IF g.frightened_ticks > 0
       THEN [g EXCEPT !.mode = "frightened"]
       ELSE [g EXCEPT !.mode = s.global_mode, !.frightened_ticks = 0]
  ELSE g

(* the test after the step: an eaten ghost that is home takes the global mode *)
arrive_home(s, g) ==
  IF g.mode = "eaten" /\ <<g.x, g.y>> = <<g.home_x, g.home_y>>
  THEN [g EXCEPT !.mode = s.global_mode, !.frightened_ticks = 0]
  ELSE g

(* move_ghost without the skip of a ghost that is not released *)
move_ghost_NoSkip(s, gs, i, rnd) ==
  LET g2 == countdown(s, gs[i])
  IN  IF g2.mode = "frightened" /\ s.tick % 2 = 1 THEN {g2}
      ELSE {arrive_home(s, g) :
              g \in UNION {step_ghost_toward(s.map, g2, t, rnd[i]) :
                            t \in ghost_targets(s, gs, g2)}}

(* move_ghost that lets a frightened ghost step in every tick *)
move_ghost_FullRate(s, gs, i, rnd) ==
  LET g1 == release(s, gs[i])
      g2 == countdown(s, g1)
  IN  IF ~g1.released THEN {gs[i]}
      ELSE {arrive_home(s, g) :
              g \in UNION {step_ghost_toward(s.map, g2, t, rnd[i]) :
                            t \in ghost_targets(s, gs, g2)}}

(* one pass of the loop body of _move_ghosts for self.ghosts[i - 1] *)
move_ghost(s, gs, i, rnd) ==
  LET g1 == release(s, gs[i])
      g2 == countdown(s, g1)
  IN  IF ~g1.released THEN {gs[i]}
      ELSE IF g2.mode = "frightened" /\ s.tick % 2 = 1 THEN {g2}
      ELSE {arrive_home(s, g) :
              g \in UNION {step_ghost_toward(s.map, g2, t, rnd[i]) :
                            t \in ghost_targets(s, gs, g2)}}

RECURSIVE move_ghosts_from(_, _, _, _)
move_ghosts_from(s, gs, i, rnd) ==
  IF i > Len(gs) THEN {gs}
  ELSE UNION {move_ghosts_from(s, [gs EXCEPT ![i] = g], i + 1, rnd) :
                g \in move_ghost(s, gs, i, rnd)}

move_ghosts(s, rnd) ==
  {[s EXCEPT !.ghosts = gs] : gs \in move_ghosts_from(s, s.ghosts, 1, rnd)}

spawn_fruit(s) == [s EXCEPT !.fruit_visible = TRUE, !.fruit_ticks_left = FRUIT_TICKS]

(* ratio_le on the share of pellets eaten instead of the share left *)
ratio_le_Eaten(pellet_count, initial_pellet_count, percent) ==
  100 * (initial_pellet_count - pellet_count) <= percent * initial_pellet_count

(* pellet_count / initial_pellet_count <= percent / 100; the quotient of two *)
(* integers below 2^53 compares with 0.70 and 0.30 as the exact fraction does *)
ratio_le(pellet_count, initial_pellet_count, percent) ==
  100 * pellet_count <= percent * initial_pellet_count

(* update_fruit that leaves the eaten item on show until its countdown ends *)
update_fruit_StaysVisible(s) ==
  IF s.initial_pellet_count = 0 THEN s
  ELSE
    LET s1 == IF ~s.fruit_spawned_once /\ ratio_le(s.pellet_count, s.initial_pellet_count, 70)
              THEN [spawn_fruit(s) EXCEPT !.fruit_spawned_once = TRUE]
              ELSE IF ~s.fruit_spawned_twice /\ ratio_le(s.pellet_count, s.initial_pellet_count, 30)
              THEN [spawn_fruit(s) EXCEPT !.fruit_spawned_twice = TRUE]
              ELSE s
    IN  IF s1.fruit_visible
        THEN LET s2 == [s1 EXCEPT !.fruit_ticks_left = @ - 1]
             IN  IF <<s2.player_x, s2.player_y>> = fruit_pos
                 THEN [s2 EXCEPT !.score = @ + FRUIT_SCORE,
                                 !.fruit_visible = s2.fruit_ticks_left > 0]
                 ELSE IF s2.fruit_ticks_left <= 0
                 THEN [s2 EXCEPT !.fruit_visible = FALSE]
                 ELSE s2
        ELSE s1

update_fruit(s) ==
  IF s.initial_pellet_count = 0 THEN s
  ELSE
    LET s1 == IF ~s.fruit_spawned_once /\ ratio_le(s.pellet_count, s.initial_pellet_count, 70)
              THEN [spawn_fruit(s) EXCEPT !.fruit_spawned_once = TRUE]
              ELSE IF ~s.fruit_spawned_twice /\ ratio_le(s.pellet_count, s.initial_pellet_count, 30)
              THEN [spawn_fruit(s) EXCEPT !.fruit_spawned_twice = TRUE]
              ELSE s
    IN  IF s1.fruit_visible
        THEN LET s2 == [s1 EXCEPT !.fruit_ticks_left = @ - 1]
             IN  IF <<s2.player_x, s2.player_y>> = fruit_pos
                 THEN [s2 EXCEPT !.score = @ + FRUIT_SCORE, !.fruit_visible = FALSE]
                 ELSE IF s2.fruit_ticks_left <= 0
                 THEN [s2 EXCEPT !.fruit_visible = FALSE]
                 ELSE s2
        ELSE s1

(* reset_after_death that builds the ghosts anew as _init_ghosts does *)
reset_after_death_InitGhosts(s) ==
  [s EXCEPT !.player_x = 14, !.player_y = 16,
            !.player_dir = "left", !.next_dir = "left",
            !.ghost_combo = 0,
            !.ghosts = init_ghosts]

reset_after_death(s) ==
  LET home(g) == [g EXCEPT !.x = g.home_x, !.y = g.home_y, !.mode = "home",
                           !.released = FALSE, !.direction = "left",
                           !.frightened_ticks = 0]
      gs == [i \in DOMAIN s.ghosts |-> home(s.ghosts[i])]
  IN  [s EXCEPT !.player_x = 14, !.player_y = 16,
                !.player_dir = "left", !.next_dir = "left",
                !.ghost_combo = 0,
                !.ghosts = IF Len(gs) > 0
                           THEN [gs EXCEPT ![1].released = TRUE, ![1].mode = s.global_mode]
                           ELSE gs]

(* eat_ghost with the exponent taken from the incremented combo *)
eat_ghost_OffByOne(s, i) ==
  LET combo == s.ghost_combo + 1
  IN  [s EXCEPT !.ghosts[i].mode = "eaten",
                !.ghost_combo = combo,
                !.score = @ + GHOST_SCORE * (2 ^ combo)]

(* the frightened branch of _resolve_collisions for self.ghosts[i - 1] *)
eat_ghost(s, i) ==
  LET combo == s.ghost_combo + 1
  IN  [s EXCEPT !.ghosts[i].mode = "eaten",
                !.ghost_combo = combo,
                !.score = @ + GHOST_SCORE * (2 ^ (combo - 1))]

(* lose_life that respawns only while lives remain *)
lose_life_RespawnIfAlive(s) ==
  LET lives == s.lives - 1
  IN  IF lives <= 0
      THEN [s EXCEPT !.lives = lives, !.game_over = TRUE]
      ELSE reset_after_death([s EXCEPT !.lives = lives])

(* lose_life that never ends the game *)
lose_life_KeepsPlaying(s) ==
  reset_after_death([s EXCEPT !.lives = @ - 1])

(* the other branch: a ghost that is not eaten costs a life *)
lose_life(s) ==
  LET lives == s.lives - 1
  IN  reset_after_death([s EXCEPT !.lives = lives,
                                  !.game_over = IF lives <= 0 THEN TRUE ELSE @])

(* the loop of _resolve_collisions from self.ghosts[i - 1] on *)
RECURSIVE resolve_collisions_from(_, _)
resolve_collisions_from(s, i) ==
  IF i > Len(s.ghosts) THEN s
  ELSE LET g == s.ghosts[i]
       IN  IF <<g.x, g.y>> # <<s.player_x, s.player_y>>
           THEN resolve_collisions_from(s, i + 1)
           ELSE IF g.mode = "frightened"
           THEN resolve_collisions_from(eat_ghost(s, i), i + 1)
           ELSE IF g.mode # "eaten"
           THEN lose_life(s)
           ELSE resolve_collisions_from(s, i + 1)

(* resolve_collisions that first eats every frightened ghost on the        *)
(* player's tile and only then looks for a ghost that costs a life         *)
resolve_collisions_FrightenedFirst(s) ==
  LET n == Len(s.ghosts)
      eaten[i \in 0..n] ==
        IF i = 0 THEN s
        ELSE IF /\ <<s.ghosts[i].x, s.ghosts[i].y>> = <<s.player_x, s.player_y>>
                /\ s.ghosts[i].mode = "frightened"
        THEN eat_ghost(eaten[i - 1], i)
        ELSE eaten[i - 1]
  IN  resolve_collisions_from(eaten[n], 1)

(* resolve_collisions that takes a life for every ghost on the player's   *)
(* tile that is neither frightened nor eaten                               *)
resolve_collisions_EveryKiller(s) ==
  LET r == resolve_collisions_from(s, 1)
      killers == {i \in DOMAIN s.ghosts :
                    /\ <<s.ghosts[i].x, s.ghosts[i].y>> = <<s.player_x, s.player_y>>
                    /\ s.ghosts[i].mode \notin {"frightened", "eaten"}}
      lives == s.lives - Cardinality(killers)
  IN  IF killers = {} THEN r
      ELSE [r EXCEPT !.lives = lives, !.game_over = IF lives <= 0 THEN TRUE ELSE @]

resolve_collisions(s) == resolve_collisions_from(s, 1)

(* check_level_clear that flags the clear without ending the game *)
check_level_clear_NoGameOver(s) ==
  IF s.pellet_count <= 0
  THEN [s EXCEPT !.level_cleared = TRUE]
  ELSE s

check_level_clear(s) ==
  IF s.pellet_count <= 0
  THEN [s EXCEPT !.level_cleared = TRUE, !.game_over = TRUE]
  ELSE s

(* tick_moves without the early return of a finished game *)
tick_moves_NoReturn(s, rnd) ==
  LET s1 == [s EXCEPT !.tick = @ + 1]
  IN  {update_fruit(sg) : sg \in move_ghosts(move_player(update_global_mode(s1)), rnd)}

(* tick_moves in which the ghosts move before the player does *)
tick_moves_GhostsFirst(s, rnd) ==
  LET s1 == [s EXCEPT !.tick = @ + 1]
  IN  IF s1.game_over THEN {s1}
      ELSE {update_fruit(move_player(sg)) : sg \in move_ghosts(update_global_mode(s1), rnd)}

(* tick_moves that also resolves the collisions between the player's move *)
(* and the ghosts' moves                                                   *)
tick_moves_CollideBetween(s, rnd) ==
  LET s1 == [s EXCEPT !.tick = @ + 1]
  IN  IF s1.game_over THEN {s1}
      ELSE {update_fruit(sg) :
              sg \in move_ghosts(resolve_collisions(move_player(update_global_mode(s1))), rnd)}

(* _game_tick up to _update_fruit: the screens it can leave before the    *)
(* collisions are resolved; rnd[i] is the direction random.choice gives    *)
(* ghost i if it is consulted, "any" for any of them                       *)
tick_moves(s, rnd) ==
  LET s1 == [s EXCEPT !.tick = @ + 1]
  IN  IF s1.game_over THEN {s1}
      ELSE {update_fruit(sg) : sg \in move_ghosts(move_player(update_global_mode(s1)), rnd)}

(* the rest of _game_tick; game_over is still as it was when the tick began *)
tick_collisions(b) ==
  IF b.game_over THEN b ELSE check_level_clear(resolve_collisions(b))

game_tick(s, rnd) == {tick_collisions(b) : b \in tick_moves(s, rnd)}

(* the screens n consecutive calls of _game_tick can leave, from any of S; *)
(* half of the calls are computed first, then the other half from there   *)
(* (the test of H makes TLC evaluate H before it goes on)                 *)
RECURSIVE game_ticks(_, _)
game_ticks(S, n) ==
  IF n = 0 THEN S
  ELSE LET H == game_ticks(S, n \div 2)
           D == IF H = {} THEN {} ELSE game_ticks(H, n \div 2)
       IN  IF n % 2 = 0 THEN D
           ELSE UNION {game_tick(s, <<"any", "any", "any", "any">>) : s \in D}


(***************************************************************************)
(* The state machine.  self is the PacmanScreen object; mounted tells      *)
(* whether on_mount has run (it starts the tick interval).  script, idle   *)
(* and free are the environment: the keys the user still presses, one      *)
(* before each tick, then the number of periods the user leaves the        *)
(* keyboard alone while the timer runs, then the number of further steps   *)
(* with arbitrary keys.  op names the last operation, a key press by its   *)
(* direction.  pre and mid are history: the screen before the last         *)
(* operation other than a key press and, when that was a tick, the screen  *)
(* of that tick just before _resolve_collisions.  base is the screen as    *)
(* that operation left it and inputs the number of key presses since.      *)
(***************************************************************************)
VARIABLES self, mounted, script, idle, free, op, pre, mid, base, inputs

vars == <<self, mounted, script, idle, free, op, pre, mid, base, inputs>>

MaxFree == 8
MaxTail == 2
(* the key presses between two ticks *)
MaxInputs == 2
(* the timer ticks of one period without a key press *)
IdleBatch == 1000
(* the idle periods of a short and of a long session *)
MaxIdle == 1
LongIdle == 101

RECURSIVE Rep(_, _)
Rep(d, n) == IF n <= 0 THEN <<>> ELSE <<d>> \o Rep(d, n - 1)

AnyChoice == <<"any", "any", "any", "any">>

(* runs[i] = <<direction, n>>: the key held for the next n ticks; a third *)
(* component prescribes what random.choice returns in that tick           *)
RECURSIVE Keys(_)
Keys(runs) ==
  IF runs = <<>> THEN <<>>
  ELSE LET r == runs[1]
           e == [key |-> r[1], rnd |-> IF Len(r) = 3 THEN r[3] ELSE AnyChoice]
       IN  Rep(e, r[2]) \o Keys(Tail(runs))

(* Key sequences that steer the player from the start of a level *)
(* into the ghost house from above, onto Inky's home tile at tick 20 *)
KeysHouse ==
  Keys(<<
    <<"right", 1>>, <<"up", 3>>, <<"right", 1>>, <<"up", 9>>, <<"left", 1>>,
    <<"up", 3>>, <<"left", 1>>, <<"down", 1>> >>)

(* out of the left end of the tunnel row, Blinky following *)
KeysTunnelLeft ==
  Keys(<<
    <<"up", 4>>, <<"left", 1>>, <<"up", 3>>, <<"left", 1>>, <<"up", 5>>,
    <<"left", 1>>, <<"up", 7>> >>)

(* out of the right end of the tunnel row, Blinky following *)
KeysTunnelRight ==
  Keys(<<
    <<"right", 1>>, <<"up", 2>>, <<"right", 1>>, <<"up", 3>>, <<"down", 1>>,
    <<"up", 5>>, <<"right", 1>>, <<"up", 7>> >>)

(* to the corridor below the house gate, pressing up against it *)
KeysGate ==
  Keys(<<
    <<"right", 1>>, <<"up", 3>>, <<"right", 1>>, <<"up", 5>>, <<"left", 1>>,
    <<"up", 3>> >>)

(* to the power pellet at (1,3) with Blinky and Pinky next to it at tick 65,
   both eaten at tick 66, then to the power pellet at (1,16) and Pinky eaten at tick 106 *)
KeysCombo ==
  Keys(<<
    <<"right", 1>>, <<"up", 2>>, <<"right", 1>>, <<"up", 3>>, <<"down", 1>>,
    <<"up", 9>>, <<"right", 1>>, <<"up", 4>>, <<"down", 1>>, <<"up", 2>>,
    <<"left", 2>>, <<"right", 4>>, <<"down", 1>>, <<"up", 1>>, <<"left", 1>>,
    <<"right", 5>>, <<"left", 1>>, <<"up", 4>>, <<"left", 1>>, <<"up", 5>>,
    <<"left", 1>>, <<"up", 2>>, <<"left", 1>>, <<"up", 5>>, <<"left", 1>>,
    <<"up", 5>>, <<"down", 1, <<"left", "up", "any", "any">>>>,
    <<"left", 2>>, <<"right", 1>>, <<"up", 4>>, <<"down", 1>>, <<"left", 3>>,
    <<"down", 1>>, <<"left", 4>>, <<"up", 18>>, <<"down", 1>>, <<"up", 1>>,
    <<"down", 1>>, <<"left", 1, <<"left", "left", "right", "any">>>>,
    <<"left", 1>>, <<"up", 1, <<"left", "down", "left", "any">>>> >>)

(* as KeysCombo to the power pellet at (1,3) at tick 65; at tick 66 Pinky
   turns away and only Blinky is eaten *)
KeysEatOne ==
  Keys(<<
    <<"right", 1>>, <<"up", 2>>, <<"right", 1>>, <<"up", 3>>, <<"down", 1>>,
    <<"up", 9>>, <<"right", 1>>, <<"up", 4>>, <<"down", 1>>, <<"up", 2>>,
    <<"left", 2>>, <<"right", 4>>, <<"down", 1>>, <<"up", 1>>, <<"left", 1>>,
    <<"right", 5>>, <<"left", 1>>, <<"up", 4>>, <<"left", 1>>, <<"up", 5>>,
    <<"left", 1>>, <<"up", 2>>, <<"left", 1>>, <<"up", 5>>, <<"left", 1>>,
    <<"up", 5>>, <<"down", 1, <<"left", "down", "any", "any">>>> >>)

(* as KeysCombo until both are eaten at tick 66, then straight to the power
   pellet at (1,16), picked up at tick 88 while both are still on their way
   home and Inky and Clyde are in the house *)
KeysEatenPickup ==
  Keys(<<
    <<"right", 1>>, <<"up", 2>>, <<"right", 1>>, <<"up", 3>>, <<"down", 1>>,
    <<"up", 9>>, <<"right", 1>>, <<"up", 4>>, <<"down", 1>>, <<"up", 2>>,
    <<"left", 2>>, <<"right", 4>>, <<"down", 1>>, <<"up", 1>>, <<"left", 1>>,
    <<"right", 5>>, <<"left", 1>>, <<"up", 4>>, <<"left", 1>>, <<"up", 5>>,
    <<"left", 1>>, <<"up", 2>>, <<"left", 1>>, <<"up", 5>>, <<"left", 1>>,
    <<"up", 5>>, <<"down", 1, <<"left", "up", "any", "any">>>>,
    <<"left", 2>>, <<"right", 1>>, <<"up", 4>>, <<"down", 1>>, <<"left", 3>>,
    <<"down", 1>>, <<"left", 4>>, <<"up", 4>>, <<"down", 2>> >>)

(* eating pellets, no power pellet, until 63 of 212 are left at tick 214 *)
KeysFruit ==
  Keys(<<
    <<"up", 2>>, <<"left", 1>>, <<"up", 20>>, <<"right", 1>>, <<"up", 5>>,
    <<"down", 1>>, <<"left", 2>>, <<"right", 1>>, <<"up", 5>>,
    <<"right", 1>>, <<"up", 5>>, <<"down", 1>>, <<"left", 2>>, <<"down", 1>>,
    <<"left", 5>>, <<"down", 1>>, <<"left", 6>>, <<"up", 3>>, <<"down", 2>>,
    <<"right", 1>>, <<"up", 5>>, <<"down", 2>>, <<"right", 1>>, <<"up", 2>>,
    <<"down", 1>>, <<"up", 1>>, <<"down", 2>>, <<"left", 2>>, <<"up", 11>>,
    <<"left", 1>>, <<"down", 1>>, <<"left", 1>>, <<"up", 11>>, <<"left", 1>>,
    <<"up", 1>>, <<"right", 3>>, <<"up", 6>>, <<"left", 1>>, <<"right", 4>>,
    <<"up", 3>>, <<"down", 2>>, <<"right", 1>>, <<"up", 2>>, <<"down", 1>>,
    <<"up", 2>>, <<"down", 1>>, <<"left", 2>>, <<"up", 3>>, <<"right", 1>>,
    <<"up", 4>>, <<"right", 1>>, <<"up", 4>>, <<"right", 1>>, <<"up", 5>>,
    <<"down", 1>>, <<"up", 1>>, <<"down", 1>>, <<"up", 1>>, <<"down", 1>>,
    <<"up", 1>>, <<"down", 1>>, <<"up", 1>>, <<"down", 1>>, <<"up", 1>>,
    <<"down", 1>>, <<"up", 1>>, <<"left", 1>>, <<"up", 4>>, <<"down", 4>>,
    <<"right", 1>>, <<"up", 2>>, <<"down", 2>>, <<"up", 1>>, <<"left", 1>>,
    <<"up", 2>>, <<"right", 1>>, <<"left", 1>>, <<"down", 1>>, <<"left", 2>>,
    <<"up", 14>>, <<"right", 1>>, <<"up", 6>>, <<"left", 2>> >>)

(* on from KeysFruit through the four power pellets (ticks 246, 285, 347, 370)
   to the last pellet at tick 401, no life lost *)
KeysClear ==
  KeysFruit \o Keys(<<
    <<"up", 3>>, <<"left", 1>>, <<"up", 2>>, <<"down", 1>>, <<"left", 2>>,
    <<"up", 2>>, <<"down", 1>>, <<"left", 2>>, <<"up", 4>>, <<"left", 1>>,
    <<"up", 4>>, <<"left", 1>>, <<"up", 2>>, <<"left", 1>>, <<"up", 4>>,
    <<"up", 1, <<"right", "up", "right", "up">>>>, <<"up", 1>>, <<"up", 1,
    <<"left", "up", "left", "up">>>>, <<"right", 1>>, <<"up", 1, <<"right",
    "up", "right", "up">>>>, <<"up", 1>>, <<"up", 1, <<"left", "up", "left",
    "up">>>>, <<"up", 1>>, <<"down", 1, <<"right", "up", "right", "up">>>>,
    <<"left", 1>>, <<"left", 1, <<"left", "down", "left", "down">>>>,
    <<"down", 1>>, <<"left", 1, <<"right", "up", "right", "up">>>>,
    <<"left", 1>>, <<"up", 1, <<"left", "down", "left", "down">>>>, <<"up",
    1>>, <<"up", 1, <<"right", "up", "right", "up">>>>, <<"up", 1>>, <<"up",
    1, <<"left", "down", "left", "down">>>>, <<"down", 1>>, <<"right", 1,
    <<"right", "up", "right", "up">>>>, <<"up", 1>>, <<"up", 1, <<"left",
    "down", "left", "down">>>>, <<"up", 1>>, <<"up", 1, <<"right", "up",
    "right", "up">>>>, <<"down", 1>>, <<"left", 1, <<"left", "down", "left",
    "down">>>>, <<"left", 1>>, <<"left", 1, <<"right", "up", "right",
    "up">>>>, <<"down", 1>>, <<"left", 1, <<"left", "down", "left",
    "down">>>>, <<"left", 1>>, <<"left", 1, <<"right", "up", "right",
    "up">>>>, <<"left", 1>>, <<"up", 1, <<"left", "down", "left",
    "down">>>>, <<"up", 1>>, <<"up", 1, <<"right", "up", "right", "up">>>>,
    <<"up", 1>>, <<"down", 1, <<"left", "down", "left", "down">>>>,
    <<"down", 1>>, <<"right", 1, <<"right", "up", "right", "up">>>>,
    <<"right", 1>>, <<"down", 1, <<"left", "down", "left", "down">>>>,
    <<"down", 1>>, <<"right", 1, <<"right", "up", "right", "up">>>> >>)
  \o Keys(<<
    <<"up", 1>>, <<"up", 1, <<"left", "down", "left", "down">>>>, <<"up",
    1>>, <<"up", 1, <<"right", "up", "right", "up">>>>, <<"right", 1>>,
    <<"up", 1, <<"left", "down", "left", "down">>>>, <<"up", 1>>, <<"down",
    1, <<"right", "up", "right", "up">>>>, <<"down", 1>>, <<"right", 1,
    <<"left", "down", "left", "down">>>>, <<"up", 1>>, <<"up", 1, <<"right",
    "up", "right", "up">>>>, <<"left", 1>>, <<"up", 1, <<"left", "down",
    "left", "down">>>>, <<"up", 1>>, <<"up", 1, <<"right", "up", "right",
    "up">>>>, <<"up", 1>>, <<"left", 1, <<"left", "down", "left",
    "down">>>>, <<"up", 1>>, <<"up", 1, <<"right", "up", "right", "up">>>>,
    <<"up", 1>>, <<"up", 1, <<"left", "down", "left", "down">>>>, <<"up",
    1>>, <<"up", 1, <<"right", "up", "right", "up">>>>, <<"up", 1>>, <<"up",
    1, <<"left", "down", "left", "down">>>>, <<"up", 1>>, <<"up", 1,
    <<"right", "up", "right", "up">>>>, <<"up", 1>>, <<"up", 1, <<"left",
    "down", "left", "down">>>>, <<"up", 1>>, <<"up", 1, <<"right", "up",
    "right", "up">>>>, <<"right", 1>>, <<"up", 1, <<"left", "down", "left",
    "down">>>>, <<"up", 1>>, <<"up", 1, <<"right", "up", "right", "up">>>>,
    <<"up", 1>>, <<"up", 1, <<"left", "down", "left", "down">>>>, <<"down",
    1>>, <<"up", 1, <<"right", "up", "right", "up">>>>, <<"up", 1>>,
    <<"down", 1, <<"left", "down", "left", "down">>>>, <<"up", 1>>, <<"up",
    1, <<"right", "up", "right", "up">>>>, <<"up", 1>>, <<"up", 1, <<"left",
    "down", "left", "down">>>>, <<"up", 1>>, <<"up", 1, <<"right", "up",
    "right", "up">>>>, <<"up", 1>>, <<"up", 1, <<"left", "down", "left",
    "down">>>>, <<"right", 1>>, <<"up", 1, <<"right", "up", "right",
    "up">>>>, <<"up", 1>>, <<"up", 1, <<"left", "down", "left", "down">>>>,
    <<"up", 1>>, <<"down", 1, <<"right", "up", "right", "up">>>>, <<"left",
    1>>, <<"left", 1, <<"left", "down", "left", "down">>>>, <<"left", 1>>,
    <<"up", 1, <<"right", "up", "right", "up">>>> >>)
  \o Keys(<<
    <<"up", 1>>, <<"up", 1, <<"left", "down", "left", "down">>>>, <<"up",
    1>>, <<"down", 1, <<"right", "up", "right", "up">>>>, <<"left", 1>>,
    <<"left", 1, <<"left", "down", "left", "down">>>>, <<"left", 1>>,
    <<"left", 1, <<"right", "up", "right", "up">>>>, <<"left", 1>>,
    <<"down", 1, <<"left", "down", "left", "down">>>>, <<"left", 1>>,
    <<"left", 1, <<"right", "up", "right", "up">>>>, <<"left", 1>>,
    <<"right", 1, <<"left", "down", "left", "down">>>>, <<"up", 1>>, <<"up",
    1, <<"right", "up", "right", "up">>>>, <<"up", 1>>, <<"up", 1, <<"left",
    "down", "left", "down">>>>, <<"down", 1>>, <<"left", 1, <<"right", "up",
    "right", "up">>>>, <<"left", 1>>, <<"left", 1, <<"left", "down", "left",
    "down">>>>, <<"down", 1>>, <<"down", 1, <<"right", "up", "right",
    "up">>>>, <<"right", 1>>, <<"down", 1, <<"left", "down", "left",
    "down">>>>, <<"left", 1>>, <<"left", 1, <<"right", "up", "right",
    "up">>>>, <<"up", 1>>, <<"up", 1, <<"left", "down", "left", "down">>>>,
    <<"up", 1>>, <<"up", 1, <<"right", "up", "right", "up">>>>, <<"up", 1>>,
    <<"up", 1, <<"left", "down", "left", "down">>>>, <<"up", 1>>, <<"up", 1,
    <<"right", "up", "right", "up">>>>, <<"up", 1>>, <<"up", 1, <<"left",
    "down", "left", "down">>>>, <<"left", 1>>, <<"left", 1, <<"right", "up",
    "right", "up">>>>, <<"up", 1>>, <<"up", 1, <<"left", "down", "left",
    "down">>>>, <<"up", 1>>, <<"up", 1, <<"right", "up", "right", "up">>>>,
    <<"up", 1>>, <<"up", 1, <<"left", "down", "left", "down">>>>, <<"up",
    1>>, <<"up", 1, <<"right", "up", "right", "up">>>>, <<"up", 1>>, <<"up",
    1, <<"left", "down", "left", "down">>>>, <<"left", 1>> >>)

(* into Blinky at tick 47, after Pinky has left the house *)
KeysDeath ==
  Keys(<< <<"up", 13>>, <<"left", 1>>, <<"up", 32>>, <<"right", 1>> >>)

(* into Blinky at ticks 12 and 38 and into Pinky at tick 63: the third life *)
KeysGameOver ==
  Keys(<<
    <<"right", 1>>, <<"up", 2>>, <<"right", 1>>, <<"up", 3>>, <<"left", 1>>,
    <<"up", 3>>, <<"right", 2>>, <<"up", 4>>, <<"right", 1>>, <<"up", 7>>,
    <<"right", 1>>, <<"up", 7>>, <<"right", 1>>, <<"up", 2>>, <<"left", 1>>,
    <<"right", 2>>, <<"up", 4>>, <<"right", 1>>, <<"up", 7>>, <<"right", 1>>,
    <<"up", 7>>, <<"right", 1>>, <<"up", 3>> >>)

(* Blinky, Clyde and Inky walk into the dead ends of the tunnel row, where
   no direction but the reverse is legal; Pinky, still scattering, circles
   its corner; the player stands at (12,6) from tick 152 on *)
KeysTrap ==
  Keys(<<
    <<"right", 1>>, <<"up", 2>>, <<"right", 1>>, <<"up", 3>>, <<"down", 1>>,
    <<"up", 5>>, <<"right", 1>>, <<"up", 39>>, <<"right", 1>>, <<"up", 80>>,
    <<"down", 1>>, <<"left", 3>>, <<"up", 2>>, <<"down", 1>>, <<"left", 2>>,
    <<"up", 3>>, <<"down", 2>>, <<"right", 1>>, <<"up", 2>>, <<"down", 2>>,
    <<"up", 1>>, <<"down", 1>>, <<"up", 4>> >>)

(* Blinky is eaten and back from home in chase mode while Pinky is still   *)
(* frightened; at tick 97 both and the player come to share (8,8)          *)
KeysMixed ==
  Keys(<<
    <<"right", 1>>, <<"up", 2>>, <<"right", 1>>, <<"up", 3>>, <<"down", 1>>,
    <<"up", 9>>, <<"right", 1>>, <<"up", 4>>, <<"down", 1>>, <<"up", 2>>,
    <<"left", 2>>, <<"right", 4>>, <<"down", 1>>, <<"up", 1>>, <<"left",
    1>>, <<"right", 5>>, <<"left", 1>>, <<"up", 4>>, <<"left", 1>>, <<"up",
    5>>, <<"left", 1>>, <<"up", 2>>, <<"left", 1>>, <<"up", 5>>, <<"left",
    1>>, <<"up", 5>>, <<"down", 1, <<"right", "down", "any", "any">>>>,
    <<"right", 1>>, <<"up", 1, <<"right", "right", "any", "any">>>>, <<"up",
    1>>, <<"up", 1, <<"any", "right", "any", "any">>>>, <<"up", 1>>,
    <<"right", 1, <<"any", "right", "any", "any">>>>, <<"up", 1>>, <<"up",
    1, <<"any", "right", "any", "any">>>>, <<"down", 1>>, <<"down", 1,
    <<"any", "right", "any", "any">>>>, <<"right", 1>>, <<"up", 1, <<"any",
    "down", "any", "any">>>>, <<"up", 1>>, <<"up", 1, <<"any", "down",
    "any", "any">>>>, <<"down", 1>>, <<"down", 1, <<"any", "down", "any",
    "any">>>>, <<"right", 1>>, <<"up", 1, <<"any", "down", "any", "any">>>>,
    <<"up", 1>>, <<"left", 1, <<"any", "right", "any", "any">>>>, <<"up",
    1>>, <<"up", 1, <<"any", "right", "any", "any">>>>, <<"left", 1>>,
    <<"up", 1, <<"any", "up", "any", "any">>>>, <<"up", 1>>, <<"right", 1,
    <<"any", "up", "any", "any">>>>, <<"left", 1>>, <<"up", 1, <<"any",
    "right", "any", "any">>>>, <<"up", 1>>, <<"down", 1, <<"any", "left",
    "any", "any">>>>, <<"up", 1>> >>)

(* Blinky and Pinky are frightened at tick 65 and kept away from for 74    *)
(* more ticks, until their countdown runs out at tick 139                  *)
KeysExpiry ==
  Keys(<<
      <<"right", 1>>, <<"up", 2>>, <<"right", 1>>, <<"up", 3>>, <<"down",
      1>>, <<"up", 9>>, <<"right", 1>>, <<"up", 4>>, <<"down", 1>>,
      <<"up", 2>>, <<"left", 2>>, <<"right", 4>>, <<"down", 1>>, <<"up",
      1>>, <<"left", 1>>, <<"right", 5>>, <<"left", 1>>, <<"up", 4>>,
      <<"left", 1>>, <<"up", 5>>, <<"left", 1>>, <<"up", 2>>, <<"left",
      1>>, <<"up", 5>>, <<"left", 1>>, <<"up", 5>>, <<"up", 1, <<"left",
      "up", "any", "any">>>>, <<"down", 1>>, <<"left", 1, <<"up", "up",
      "any", "any">>>>, <<"left", 1>>, <<"left", 1, <<"up", "up", "any",
      "any">>>>, <<"right", 1>>, <<"up", 1, <<"up", "up", "any",
      "any">>>>, <<"up", 1>>, <<"up", 1, <<"down", "down", "any",
      "any">>>>, <<"up", 1>>, <<"up", 1, <<"up", "up", "any", "any">>>>,
      <<"up", 1>>, <<"up", 1, <<"down", "down", "any", "any">>>>, <<"up",
      1>>, <<"down", 1, <<"up", "up", "any", "any">>>>, <<"up", 1>>,
      <<"up", 1, <<"down", "down", "any", "any">>>>, <<"up", 1>>,
      <<"down", 1, <<"up", "up", "any", "any">>>>, <<"down", 1>>, <<"up",
      1, <<"down", "down", "any", "any">>>>, <<"up", 1>>, <<"down", 1,
      <<"up", "up", "any", "any">>>>, <<"down", 1>> >>)
    \o
  Keys(<<
      <<"up", 1, <<"down", "down", "any", "any">>>>, <<"up", 1>>,
      <<"down", 1, <<"up", "up", "any", "any">>>>, <<"down", 1>>, <<"up",
      1, <<"down", "down", "any", "any">>>>, <<"up", 1>>, <<"down", 1,
      <<"up", "up", "any", "any">>>>, <<"down", 1>>, <<"up", 1, <<"down",
      "down", "any", "any">>>>, <<"up", 1>>, <<"down", 1, <<"up", "up",
      "any", "any">>>>, <<"down", 1>>, <<"up", 1, <<"down", "down", "any",
      "any">>>>, <<"up", 1>>, <<"down", 1, <<"up", "up", "any", "any">>>>,
      <<"down", 1>>, <<"up", 1, <<"down", "down", "any", "any">>>>,
      <<"up", 1>>, <<"right", 1, <<"up", "up", "any", "any">>>>, <<"up",
      1>>, <<"up", 1, <<"down", "down", "any", "any">>>>, <<"up", 1>>,
      <<"up", 1, <<"up", "up", "any", "any">>>>, <<"up", 1>>, <<"up", 1,
      <<"down", "down", "any", "any">>>>, <<"left", 1>>, <<"up", 1,
      <<"up", "up", "any", "any">>>>, <<"up", 1>>, <<"up", 1, <<"down",
      "down", "any", "any">>>>, <<"up", 1>>, <<"right", 1, <<"up", "up",
      "any", "any">>>>, <<"up", 1>>, <<"up", 1, <<"down", "down", "any",
      "any">>>>, <<"up", 1>>, <<"up", 1, <<"up", "up", "any", "any">>>>,
      <<"up", 1>>, <<"up", 1, <<"down", "down", "any", "any">>>>, <<"up",
      1>>, <<"up", 1, <<"up", "up", "any", "any">>>>, <<"up", 1>>, <<"up",
      1, <<"down", "down", "any", "any">>>>, <<"up", 1>>, <<"up", 1,
      <<"up", "up", "any", "any">>>>, <<"left", 1>>, <<"up", 1, <<"down",
      "down", "any", "any">>>>, <<"up", 1>>, <<"up", 1, <<"up", "up",
      "any", "any">>>>, <<"up", 1>>, <<"up", 1, <<"down", "down", "any",
      "any">>>>, <<"up", 1>> >>)

(* the bonus item appears at tick 64 and the player walks into the house   *)
(* and onto its tile at tick 84                                            *)
KeysEatFruit ==
  Keys(<<
      <<"up", 2>>, <<"left", 1>>, <<"up", 20>>, <<"right", 1>>, <<"up",
      5>>, <<"down", 1>>, <<"left", 2>>, <<"right", 1>>, <<"up", 5>>,
      <<"right", 1>>, <<"up", 5>>, <<"down", 1>>, <<"left", 2>>, <<"down",
      1>>, <<"left", 5>>, <<"down", 1>>, <<"left", 6>>, <<"up", 3>>,
      <<"down", 1>>, <<"up", 1>>, <<"right", 1>>, <<"up", 9>>, <<"left",
      1>>, <<"up", 3>>, <<"left", 2>>, <<"down", 2>>, <<"right", 1>> >>)

(* a power pellet at tick 65; Blinky, frightened, enters the tunnel row    *)
(* at (5,10) facing left and the player eats it there at tick 87           *)


(* a power pellet at tick 65; Blinky, frightened, enters the tunnel row    *)
(* at (5,10) facing left and the player eats it there at tick 87           *)
KeysDoom ==
  Keys(<<
      <<"right", 1>>, <<"up", 2>>, <<"right", 1>>, <<"up", 3>>, <<"down",
      1>>, <<"up", 9>>, <<"right", 1>>, <<"up", 4>>, <<"down", 1>>,
      <<"up", 2>>, <<"left", 2>>, <<"right", 4>>, <<"down", 1>>, <<"up",
      1>>, <<"left", 1>>, <<"right", 5>>, <<"left", 1>>, <<"up", 4>>,
      <<"left", 1>>, <<"up", 5>>, <<"left", 1>>, <<"up", 2>>, <<"left",
      1>>, <<"up", 5>>, <<"left", 1>>, <<"up", 5>>, <<"down", 1,
      <<"right", "down", "any", "any">>>>, <<"left", 1>>, <<"left", 1,
      <<"right", "up", "any", "any">>>>, <<"right", 1>>, <<"up", 1,
      <<"right", "up", "any", "any">>>>, <<"up", 1>>, <<"up", 1,
      <<"right", "up", "any", "any">>>>, <<"up", 1>>, <<"right", 1,
      <<"down", "up", "any", "any">>>>, <<"left", 1>>, <<"up", 1,
      <<"down", "up", "any", "any">>>>, <<"up", 1>>, <<"right", 1,
      <<"down", "down", "any", "any">>>>, <<"up", 1>>, <<"up", 1,
      <<"down", "up", "any", "any">>>>, <<"right", 1>>, <<"right", 1,
      <<"down", "down", "any", "any">>>>, <<"down", 1>>, <<"left", 1,
      <<"down", "up", "any", "any">>>>, <<"left", 1>>, <<"left", 1,
      <<"left", "down", "any", "any">>>>, <<"left", 1>> >>)

(* the player waits at (13,8) above the house; Blinky and Pinky, released  *)
(* at tick 40, both step onto that tile at tick 41                         *)
KeysTwoKillers ==
  Keys(<<
      <<"up", 13>>, <<"left", 1>>, <<"up", 13>>, <<"down", 2>>, <<"up",
      2>>, <<"right", 1>>, <<"up", 3>>, <<"down", 2>>, <<"up", 1>>,
      <<"right", 1>>, <<"up", 2>> >>)

Scripts ==
  {KeysHouse, KeysTunnelLeft, KeysTunnelRight, KeysGate, KeysDeath, KeysCombo,
   KeysEatOne, KeysEatenPickup, KeysFruit, KeysClear, KeysGameOver,
   KeysMixed, KeysExpiry, KeysEatFruit, KeysDoom,
   KeysTwoKillers}

Scenarios ==
  {[keys |-> <<>>, idle |-> 0, free |-> MaxFree]}
    \cup {[keys |-> k, idle |-> 0, free |-> MaxTail] : k \in Scripts}
    \cup {[keys |-> KeysTrap, idle |-> MaxIdle, free |-> MaxTail]}

(* a session left alone for longer than the whole mode schedule *)
LongScenarios == {[keys |-> KeysTrap, idle |-> LongIdle, free |-> MaxTail]}

InitOf(scenarios) ==
  /\ self = NewScreen
  /\ mounted = FALSE
  /\ \E sc \in scenarios : script = sc.keys /\ idle = sc.idle /\ free = sc.free
  /\ op = "init"
  /\ pre = NewScreen
  /\ mid = NewScreen
  /\ base = NewScreen
  /\ inputs = 0

Init == InitOf(Scenarios)

InitLong == InitOf(LongScenarios)

(* on_mount *)
Mount ==
  /\ ~mounted
  /\ self' = reset_level(self, FALSE)
  /\ mounted' = TRUE
  /\ op' = "mount"
  /\ pre' = self
  /\ mid' = self
  /\ base' = self'
  /\ inputs' = 0
  /\ UNCHANGED <<script, idle, free>>

(* the timer callback _game_tick *)
Tick ==
  /\ mounted
  /\ \E rnd \in {IF script # <<>> THEN Head(script).rnd ELSE AnyChoice} :
       \E b \in tick_moves(self, rnd) :
          /\ mid' = b
          /\ self' = tick_collisions(b)
  /\ \/ /\ script # <<>>
        /\ self.next_dir = Head(script).key
        /\ script' = Tail(script)
        /\ free' = free
     \/ /\ script = <<>>
        /\ idle = 0
        /\ free > 0
        /\ script' = script
        /\ free' = free - 1
  /\ op' = "tick"
  /\ pre' = self
  /\ base' = self'
  /\ inputs' = 0
  /\ UNCHANGED <<mounted, idle>>

(* the timer callback IdleBatch times in a row, no key pressed in between: *)
(* the last of these ticks is the step from pre to self                    *)
Idle ==
  /\ mounted
  /\ script = <<>>
  /\ idle > 0
  /\ \E a \in game_ticks({self}, IdleBatch - 1) :
       \E b \in tick_moves(a, AnyChoice) :
          /\ pre' = a
          /\ mid' = b
          /\ self' = tick_collisions(b)
  /\ idle' = idle - 1
  /\ op' = "tick"
  /\ base' = self'
  /\ inputs' = 0
  /\ UNCHANGED <<mounted, script, free>>

(* a key handler that turns the player at once *)
Move_Turn(d) ==
  /\ mounted
  /\ \/ script # <<>> /\ Head(script).key = d /\ self.next_dir # d
     \/ script = <<>> /\ idle = 0 /\ free > 0
  /\ inputs < MaxInputs
  /\ self' = [self EXCEPT !.next_dir = d, !.player_dir = d]
  /\ op' = d
  /\ inputs' = inputs + 1
  /\ UNCHANGED <<mounted, script, idle, free, pre, mid, base>>

(* action_move_up, action_move_down, action_move_left, action_move_right *)
Move(d) ==
  /\ mounted
  /\ \/ script # <<>> /\ Head(script).key = d /\ self.next_dir # d
     \/ script = <<>> /\ idle = 0 /\ free > 0
  /\ inputs < MaxInputs
  /\ self' = [self EXCEPT !.next_dir = d]
  /\ op' = d
  /\ inputs' = inputs + 1
  /\ UNCHANGED <<mounted, script, idle, free, pre, mid, base>>

MoveUp == Move("up")
MoveDown == Move("down")
MoveLeft == Move("left")
MoveRight == Move("right")

(* action_restart *)
Restart ==
  /\ mounted
  /\ script = <<>>
  /\ idle = 0
  /\ free > 0
  /\ self' = reset_level(self, TRUE)
  /\ free' = free - 1
  /\ op' = "restart"
  /\ pre' = self
  /\ mid' = self
  /\ base' = self'
  /\ inputs' = 0
  /\ UNCHANGED <<mounted, script, idle>>

Next == Mount \/ Tick \/ Idle \/ MoveUp \/ MoveDown \/ MoveLeft \/ MoveRight \/ Restart

Spec == Init /\ [][Next]_vars

SpecLong == InitLong /\ [][Next]_vars

(***************************************************************************)
(* Properties.  A tick is the step from pre to self; mid is the screen of  *)
(* that tick after the player and the ghosts have moved and the fruit has  *)
(* been updated, before collisions are resolved.                           *)
(***************************************************************************)
Tiles == (0..(width - 1)) \X (0..(height - 1))
Pos(g) == <<g.x, g.y>>
Home(g) == <<g.home_x, g.home_y>>
Player(s) == <<s.player_x, s.player_y>>
TileAt(s, p) == s.map[p[2]][p[1]]
GhostIds == DOMAIN self.ghosts

(* the last operation was a tick that ran the engine (the game was not over) *)
Ticked == op = "tick" /\ ~pre.game_over

(* the player picked up a power pellet in the last tick *)
PowerPicked == Ticked /\ TileAt(pre, Player(mid)) = POWER

(* the tiles the last tick changed *)
Consumed == {p \in Tiles : TileAt(self, p) # TileAt(pre, p)}

(* C1: after a level reset the pellet counter equals the number of Pellet  *)
(* and PowerPellet tiles left in the maze; a tick never increases it and   *)
(* lowers it by at most one, only for a Pellet or PowerPellet tile the     *)
(* player has landed on.                                                   *)
C1_PelletCounter ==
  /\ mounted => self.pellet_count = CountPellets(self.map)
  /\ op = "tick" =>
       /\ self.pellet_count = pre.pellet_count - Cardinality(Consumed)
       /\ Cardinality(Consumed) <= 1
       /\ \A p \in Consumed :
            /\ TileAt(pre, p) \in {PELLET, POWER}
            /\ TileAt(self, p) = EMPTY
            /\ p = Player(mid)

C1_PowerPelletCounted ==
  /\ PowerPicked
  /\ self.pellet_count = pre.pellet_count - 1
  /\ self.pellet_count < self.initial_pellet_count - 1

(* C2: when the player shares its tile with pursuers that are not released *)
(* (and with no released one), collision resolution does nothing: no life  *)
(* is lost, no pursuer is eaten and nobody is respawned.                   *)
C2_UnreleasedNeverCollides ==
  ( /\ Ticked
    /\ \E i \in GhostIds : Pos(mid.ghosts[i]) = Player(mid) /\ ~mid.ghosts[i].released
    /\ \A i \in GhostIds : Pos(mid.ghosts[i]) = Player(mid) => ~mid.ghosts[i].released )
  => /\ self.lives = mid.lives
     /\ Player(self) = Player(mid)
     /\ self.ghosts = mid.ghosts

(* C3: a pursuer that is not released is on its home tile, in every state  *)
(* and also between the moves and the collisions of a tick.                *)
C3_UnreleasedStaysHome ==
  \A i \in GhostIds :
     /\ ~self.ghosts[i].released => Pos(self.ghosts[i]) = Home(self.ghosts[i])
     /\ ~mid.ghosts[i].released => Pos(mid.ghosts[i]) = Home(mid.ghosts[i])

(* a death sent a pursuer that had left the house back home, while another *)
(* one sat out the tick in the house                                       *)
C3_SentHome ==
  /\ Ticked
  /\ self.lives < pre.lives
  /\ \E i \in GhostIds :
       /\ pre.ghosts[i].released
       /\ Pos(pre.ghosts[i]) # Home(pre.ghosts[i])
       /\ ~self.ghosts[i].released
  /\ \E j \in GhostIds : ~pre.ghosts[j].released /\ ~self.ghosts[j].released

(* C4: in a tick that flips the global mode every released pursuer that is *)
(* not Frightened or Eaten has the new global mode at the end of the tick, *)
(* so a released pursuer in Scattering or Chasing mode always has the      *)
(* global mode.                                                            *)
C4_FlipAdopted ==
  /\ (Ticked /\ self.global_mode # pre.global_mode) =>
       \A i \in GhostIds :
          (self.ghosts[i].released /\ self.ghosts[i].mode \notin {"frightened", "eaten"})
          => self.ghosts[i].mode = self.global_mode
  /\ mounted =>
       \A i \in GhostIds :
          (self.ghosts[i].released /\ self.ghosts[i].mode \in {"scatter", "chase"})
          => self.ghosts[i].mode = self.global_mode

(* C5: a pursuer steps onto a HouseGate tile only in Eaten mode.           *)
C5_GateOnlyWhenEaten ==
  Ticked =>
    \A i \in GhostIds :
       (Pos(mid.ghosts[i]) # Pos(pre.ghosts[i]) /\ TileAt(mid, Pos(mid.ghosts[i])) = GATE)
       => pre.ghosts[i].mode = "eaten"

(* C5, amended: the gate is excluded for the player only.  The player is   *)
(* never on a HouseGate tile, and for a pursuer in any mode a HouseGate    *)
(* tile next to it is a legal tile.                                        *)
C5_GateExcludesPlayerOnly ==
  /\ TileAt(self, Player(self)) # GATE
  /\ TileAt(mid, Player(mid)) # GATE
  /\ \A d \in Directions :
       /\ tile(self.map, self.player_x + dir_delta(d)[1], self.player_y + dir_delta(d)[2]) = GATE
            => ~can_move(self.map, self.player_x, self.player_y, d, FALSE)
       /\ \A i \in GhostIds :
            tile(self.map, self.ghosts[i].x + dir_delta(d)[1],
                 self.ghosts[i].y + dir_delta(d)[2]) = GATE
            => can_move(self.map, self.ghosts[i].x, self.ghosts[i].y, d, TRUE)

(* the player pressed up below the gate and was held back in a tick *)
C5_PlayerHeldAtGate ==
  /\ Ticked
  /\ pre.next_dir = "up"
  /\ tile(pre.map, pre.player_x, pre.player_y - 1) = GATE
  /\ mid.player_y = pre.player_y
  /\ self.lives = pre.lives

(* C6: a released pursuer that steps in Scattering or Chasing mode does    *)
(* not end its step facing opposite to the facing it had before, whenever  *)
(* some other direction was legal.                                         *)
C6_NoReversal ==
  Ticked =>
    \A i \in GhostIds :
       LET a == pre.ghosts[i]
           b == mid.ghosts[i]
       IN  ( /\ b.released
             /\ b.mode \in {"scatter", "chase"}
             /\ a.mode # "eaten"
             /\ \E d \in Directions \ {reverse_dir(a.direction)} :
                   can_move(mid.map, a.x, a.y, d, TRUE) )
           => b.direction # reverse_dir(a.direction)

(* Blinky, chasing, stepped away although the tile behind it was legal and *)
(* nearer to the player                                                    *)
C6_ReverseWasNearer ==
  /\ Ticked
  /\ LET a == pre.ghosts[1]
         b == mid.ghosts[1]
         back == reverse_dir(a.direction)
         bx == a.x + dir_delta(back)[1]
         by == a.y + dir_delta(back)[2]
     IN  /\ a.mode = "chase" /\ b.mode = "chase"
         /\ Pos(b) # Pos(a)
         /\ can_move(mid.map, a.x, a.y, back, TRUE)
         /\ Abs(mid.player_x - bx) + Abs(mid.player_y - by)
              < Abs(mid.player_x - b.x) + Abs(mid.player_y - b.y)

(* the points for the k-th pursuer eaten in a window *)
ComboAward(k) == 200 * (2 ^ (k - 1))

RECURSIVE ComboAwards(_, _)
(* the points for the n pursuers eaten after k0 others *)
ComboAwards(k0, n) == IF n = 0 THEN 0 ELSE ComboAwards(k0, n - 1) + ComboAward(k0 + n)

(* the pursuers eaten in the last tick, when nobody died in it *)
EatenNow == {i \in GhostIds : mid.ghosts[i].mode = "frightened" /\ self.ghosts[i].mode = "eaten"}

(* C7: the k-th Frightened pursuer eaten since the last power-pellet       *)
(* pickup, death or level reset adds 200 * 2^(k-1) to the score, also for  *)
(* several in one tick; pickup, death and reset start the count again.     *)
C7_ComboScoring ==
  /\ Ticked =>
       /\ mid.ghost_combo = IF PowerPicked THEN 0 ELSE pre.ghost_combo
       /\ IF self.lives < mid.lives
          THEN /\ self.ghost_combo = 0
               /\ \E n \in 0..Len(self.ghosts) :
                     self.score = mid.score + ComboAwards(mid.ghost_combo, n)
          ELSE /\ self.ghost_combo = mid.ghost_combo + Cardinality(EatenNow)
               /\ self.score = mid.score + ComboAwards(mid.ghost_combo, Cardinality(EatenNow))
  /\ op \in {"mount", "restart"} => self.ghost_combo = 0

(* two pursuers eaten in one tick for 200 and 400, after a pickup *)
C7_TwoEatenInOneTick ==
  /\ Ticked
  /\ mid.ghost_combo = 0
  /\ Cardinality(EatenNow) = 2
  /\ self.score = mid.score + 600

(* C8: the bonus item becomes visible only in the tick in which a trigger  *)
(* fires; trigger 1 has fired exactly when pellet_count /                  *)
(* initial_pellet_count <= 0.70 and trigger 2 exactly when it is <= 0.30,  *)
(* so each fires in the first tick with that ratio and once per level.     *)
C8_FruitAppearances ==
  /\ mounted =>
       /\ self.fruit_spawned_once <=> (10 * self.pellet_count <= 7 * self.initial_pellet_count)
       /\ self.fruit_spawned_twice <=> (10 * self.pellet_count <= 3 * self.initial_pellet_count)
  /\ Ticked =>
       LET fired == \/ self.fruit_spawned_once /\ ~pre.fruit_spawned_once
                    \/ self.fruit_spawned_twice /\ ~pre.fruit_spawned_twice
       IN  /\ (self.fruit_visible /\ ~pre.fruit_visible) => fired
           /\ fired => /\ self.fruit_ticks_left = 79
                       /\ self.fruit_visible \/ Player(mid) = fruit_pos
           /\ pre.fruit_spawned_once => self.fruit_spawned_once
           /\ pre.fruit_spawned_twice => self.fruit_spawned_twice
  /\ op \in {"mount", "restart"} =>
       ~self.fruit_visible /\ ~self.fruit_spawned_once /\ ~self.fruit_spawned_twice

(* the second appearance, in the tick the count reaches 63 of 212 *)
C8_SecondAppearance ==
  /\ Ticked
  /\ self.fruit_spawned_twice /\ ~pre.fruit_spawned_twice
  /\ self.fruit_visible
  /\ 10 * pre.pellet_count > 3 * pre.initial_pellet_count

(* C9: a player on the leftmost tile of row 10 that moves left ends its    *)
(* move on the rightmost tile of the row, and the other way round; on no   *)
(* other row is a move off the grid legal.                                 *)
C9_TunnelWrap ==
  /\ Ticked =>
       /\ (Player(pre) = <<0, 10>> /\ mid.player_dir = "left") => Player(mid) = <<width - 1, 10>>
       /\ (Player(pre) = <<width - 1, 10>> /\ mid.player_dir = "right") => Player(mid) = <<0, 10>>
       /\ Player(mid) \in Tiles
  /\ \A y \in (0..(height - 1)) \ {10} :
       /\ ~can_move(self.map, 0, y, "left", FALSE)
       /\ ~can_move(self.map, width - 1, y, "right", FALSE)
  /\ \A x \in 0..(width - 1) :
       /\ ~can_move(self.map, x, 0, "up", FALSE)
       /\ ~can_move(self.map, x, height - 1, "down", FALSE)

(* the player left through the left opening and is on the right edge *)
C9_WrappedLeftToRight ==
  /\ Ticked
  /\ Player(pre) = <<0, 10>>
  /\ Player(mid) = <<width - 1, 10>>

(* C10: no pursuer step uses the tunnel wrap: a step changes a pursuer's   *)
(* column by at most 1 and leaves it inside the grid, and without a death  *)
(* so does the whole tick.                                                 *)
C10_NoGhostWrap ==
  Ticked =>
    \A i \in GhostIds :
       /\ Abs(mid.ghosts[i].x - pre.ghosts[i].x) <= 1
       /\ mid.ghosts[i].x \in 0..(width - 1)
       /\ self.lives = pre.lives => Abs(self.ghosts[i].x - pre.ghosts[i].x) <= 1

(* a released pursuer on an end of the tunnel row, facing the opening, has *)
(* taken its step and is still there                                       *)
C10_GhostAtTunnelEnd ==
  /\ Ticked
  /\ \E i \in GhostIds :
       /\ pre.ghosts[i].released
       /\ \/ Pos(pre.ghosts[i]) = <<0, 10>> /\ pre.ghosts[i].direction = "left"
          \/ Pos(pre.ghosts[i]) = <<width - 1, 10>> /\ pre.ghosts[i].direction = "right"
       /\ Pos(mid.ghosts[i]) = Pos(pre.ghosts[i])

(* the tiles of kind c the level has lost since it was reset *)
CountOf(m, c) == Cardinality({p \in Tiles : m[p[2]][p[1]] = c})
PelletsEaten(s) == CountOf(InitialMap, PELLET) - CountOf(s.map, PELLET)
PowerEaten(s) == CountOf(InitialMap, POWER) - CountOf(s.map, POWER)

(* the pursuers on the player's tile when collisions are resolved *)
Sharing == {i \in GhostIds : Pos(mid.ghosts[i]) = Player(mid)}

(* C11: end to end from a fresh level, while no bonus item has appeared:   *)
(* after n Pellets and nothing else the score is 10 n; the tick that then  *)
(* picks up the first PowerPellet leaves it at 10 n + 50 with every        *)
(* pursuer that was released and not Eaten now Frightened; the tick in     *)
(* which the player then shares its tile with one Frightened pursuer, the  *)
(* first of the window, leaves it at 10 n + 250 with combo 1 and that      *)
(* pursuer Eaten; the counter has dropped by the pickups: n + 1 (the       *)
(* claim's case is n = 1: 10, 60, 260 and a drop of 2).                    *)
C11_EndToEnd ==
  /\ (mounted /\ PowerEaten(self) = 0 /\ ~self.fruit_spawned_once) =>
       /\ self.score = 10 * PelletsEaten(self)
       /\ self.pellet_count = self.initial_pellet_count - PelletsEaten(self)
  /\ (PowerPicked /\ PowerEaten(pre) = 0 /\ ~mid.fruit_spawned_once) =>
       /\ pre.score = 10 * PelletsEaten(pre)
       /\ mid.score = 10 * PelletsEaten(mid) + 50
       /\ mid.pellet_count = mid.initial_pellet_count - (PelletsEaten(mid) + 1)
       /\ \A i \in GhostIds :
            (pre.ghosts[i].released /\ pre.ghosts[i].mode # "eaten")
            => mid.ghosts[i].mode = "frightened"
  /\ ( /\ Ticked
       /\ PowerEaten(mid) = 1
       /\ ~mid.fruit_spawned_once
       /\ mid.ghost_combo = 0
       /\ Cardinality(Sharing) = 1
       /\ \A i \in Sharing : mid.ghosts[i].mode = "frightened" )
     => /\ self.score = 10 * PelletsEaten(self) + 250
        /\ self.ghost_combo = 1
        /\ \A i \in Sharing : self.ghosts[i].mode = "eaten"
        /\ self.pellet_count = self.initial_pellet_count - (PelletsEaten(self) + 1)

(* Blinky eaten alone in the tick after the first power pellet, 49 pellets *)
(* into the level                                                          *)
C11_FirstEatenAfterPower ==
  /\ Ticked
  /\ PowerEaten(self) = 1
  /\ PowerPicked = FALSE
  /\ mid.ghost_combo = 0
  /\ Sharing = {1}
  /\ mid.ghosts[1].mode = "frightened"
  /\ self.ghosts[1].mode = "eaten"
  /\ self.score = 10 * PelletsEaten(self) + 250

(* C12: when the pellet counter has reached 0, level_cleared and game_over *)
(* are both set at the end of that same tick, and no later tick moves the  *)
(* player or a pursuer.                                                    *)
C12_LevelClear ==
  /\ mounted => (self.pellet_count <= 0 => self.level_cleared /\ self.game_over)
  /\ (op = "tick" /\ pre.pellet_count > 0 /\ self.pellet_count = 0) =>
       /\ ~pre.level_cleared
       /\ self.level_cleared /\ self.game_over
  /\ (op = "tick" /\ pre.level_cleared) =>
       /\ Player(self) = Player(pre)
       /\ \A i \in GhostIds : Pos(self.ghosts[i]) = Pos(pre.ghosts[i])
       /\ self.level_cleared /\ self.game_over

(* a tick has run on the cleared level *)
C12_TickAfterClear ==
  /\ op = "tick"
  /\ pre.level_cleared /\ pre.pellet_count = 0
  /\ self.tick = pre.tick + 1
  /\ \E i \in GhostIds : pre.ghosts[i].released /\ pre.ghosts[i].mode # "home"

(* what a tick of a finished game must leave alone *)
Frozen(a, b) ==
  /\ b.map = a.map /\ b.pellet_count = a.pellet_count
  /\ Player(b) = Player(a) /\ b.player_dir = a.player_dir
  /\ \A i \in DOMAIN a.ghosts :
       /\ Pos(b.ghosts[i]) = Pos(a.ghosts[i])
       /\ b.ghosts[i].mode = a.ghosts[i].mode
       /\ b.ghosts[i].released = a.ghosts[i].released
       /\ b.ghosts[i].frightened_ticks = a.ghosts[i].frightened_ticks
  /\ b.global_mode = a.global_mode /\ b.mode_timer = a.mode_timer
  /\ b.mode_cycle_index = a.mode_cycle_index
  /\ b.fruit_visible = a.fruit_visible /\ b.fruit_ticks_left = a.fruit_ticks_left
  /\ b.fruit_spawned_once = a.fruit_spawned_once
  /\ b.fruit_spawned_twice = a.fruit_spawned_twice
  /\ b.score = a.score /\ b.lives = a.lives /\ b.ghost_combo = a.ghost_combo

(* C13: once game_over is set, a tick changes nothing of the game but the  *)
(* tick counter, and only a restart clears game_over.                      *)
C13_GameOverTerminal ==
  [][self.game_over =>
       /\ op' = "tick" => Frozen(self, self')
       /\ ~self'.game_over => op' = "restart"]_vars

(* a tick has run after the last life was lost *)
C13_TickAfterLastLife ==
  /\ op = "tick"
  /\ pre.game_over /\ ~pre.level_cleared /\ pre.lives = 0
  /\ self.tick = pre.tick + 1
  /\ Frozen(pre, self)

(* C14: in the final entry of the mode schedule the global mode is Chasing *)
(* and stays so: while mode_cycle_index is the last index of the schedule, *)
(* global_mode is "chase".                                                 *)
C14_FinalPhaseChasing ==
  mounted => (self.mode_cycle_index = Len(schedule) - 1 => self.global_mode = "chase")

(* the Manhattan distance of two tiles *)
Manhattan(p, q) == Abs(p[1] - q[1]) + Abs(p[2] - q[2])

(* the tile next to p in direction d *)
Step(p, d) == <<p[1] + dir_delta(d)[1], p[2] + dir_delta(d)[2]>>

(* the directions a pursuer that may not reverse can take from where it is *)
Forward(s, g) ==
  {d \in Directions : d # reverse_dir(g.direction) /\ can_move(s.map, g.x, g.y, d, TRUE)}

(* C15: a pursuer in Eaten mode steps to a legal tile nearest to its own   *)
(* home tile; it leaves Eaten mode in the tick its step ends on the home   *)
(* tile, and only then, taking the global mode with countdown 0; a power   *)
(* pellet and a shared tile with the player leave it Eaten and cost        *)
(* nothing; otherwise only a death respawn or a restart ends Eaten mode.   *)
C15_EatenGoesHome ==
  /\ Ticked =>
       \A i \in GhostIds :
          LET a == pre.ghosts[i]
              b == mid.ghosts[i]
              c == self.ghosts[i]
          IN  /\ a.mode = "eaten" =>
                   /\ IF Forward(mid, a) = {} THEN Pos(b) = Pos(a)
                      ELSE \E d \in Forward(mid, a) :
                              /\ Pos(b) = Step(Pos(a), d)
                              /\ \A e \in Forward(mid, a) :
                                    Manhattan(Pos(b), Home(a))
                                      <= Manhattan(Step(Pos(a), e), Home(a))
                   /\ IF Pos(b) = Home(b)
                      THEN b.mode = mid.global_mode /\ b.frightened_ticks = 0
                      ELSE b.mode = "eaten" /\ b.frightened_ticks = a.frightened_ticks
              /\ (b.mode = "eaten" /\ self.lives = mid.lives) => c = b
              /\ (b.mode = "eaten" /\ c.mode # "eaten") => self.lives < mid.lives
              /\ (\A j \in Sharing : mid.ghosts[j].mode = "eaten") =>
                   /\ self.lives = mid.lives /\ self.score = mid.score
                   /\ self.ghosts = mid.ghosts /\ Player(self) = Player(mid)
              /\ a.mode # "eaten" => b.mode # "eaten"
  /\ op \in {"mount", "restart"} => \A i \in GhostIds : self.ghosts[i].mode # "eaten"

(* an eaten pursuer has stepped onto its home tile and taken the global    *)
(* mode, its countdown cleared                                             *)
C15_ArrivedHome ==
  /\ Ticked
  /\ \E i \in GhostIds :
       /\ pre.ghosts[i].mode = "eaten"
       /\ pre.ghosts[i].frightened_ticks > 0
       /\ Pos(pre.ghosts[i]) # Home(pre.ghosts[i])
       /\ Pos(mid.ghosts[i]) = Home(mid.ghosts[i])
       /\ mid.ghosts[i].mode = mid.global_mode
       /\ mid.ghosts[i].frightened_ticks = 0

(* the screen of the last tick when the player had moved, before the tile  *)
(* it stands on took effect                                                *)
Landed == player_step(update_global_mode([pre EXCEPT !.tick = @ + 1]))

(* C16: the pickup of a PowerPellet adds 50 to the score, lowers the       *)
(* pellet counter by 1, sets combo to 0 and makes every pursuer that is    *)
(* not in Home or Eaten mode Frightened with countdown 75, whatever        *)
(* countdown it had; Home and Eaten pursuers are left as they are.  At the *)
(* end of the moves of that tick the countdown of those pursuers is 74.    *)
C16_PowerPellet ==
  PowerPicked =>
    LET a == Landed
        b == tile_effect(a)
    IN  /\ TileAt(a, Player(a)) = POWER /\ TileAt(b, Player(a)) = EMPTY
        /\ b.score = a.score + 50
        /\ b.pellet_count = a.pellet_count - 1
        /\ b.ghost_combo = 0
        /\ \A i \in GhostIds :
             IF a.ghosts[i].mode \in {"home", "eaten"}
             THEN b.ghosts[i] = a.ghosts[i]
             ELSE /\ b.ghosts[i].mode = "frightened"
                  /\ b.ghosts[i].frightened_ticks = 75
                  /\ mid.ghosts[i].mode = "frightened"
                  /\ mid.ghosts[i].frightened_ticks = 74
        /\ mid.score = pre.score + 50
        /\ mid.pellet_count = pre.pellet_count - 1
        /\ mid.ghost_combo = 0

(* a power pellet picked up while a pursuer was Frightened with less than  *)
(* half of its countdown left                                              *)
C16_FrightenedAgain ==
  /\ PowerPicked
  /\ \E i \in GhostIds :
       /\ pre.ghosts[i].mode = "frightened"
       /\ pre.ghosts[i].frightened_ticks < 38
       /\ mid.ghosts[i].frightened_ticks = 74

(* the last tick cost a life *)
Died == Ticked /\ self.lives < mid.lives

(* the player is on the spawn tile and every pursuer on its home tile with *)
(* only the first one released                                             *)
Respawned(s) ==
  /\ Player(s) = <<14, 16>>
  /\ \A i \in DOMAIN s.ghosts :
       /\ Pos(s.ghosts[i]) = Home(s.ghosts[i])
       /\ s.ghosts[i].released <=> i = 1

(* C17: when a collision takes the last life, game_over is set and nobody  *)
(* is respawned: the player and the pursuers keep their positions, modes   *)
(* and released flags.                                                     *)
C17_NoRespawnAtZero ==
  (Died /\ self.lives <= 0) =>
     /\ self.game_over
     /\ Player(self) = Player(mid)
     /\ \A i \in GhostIds :
          /\ Pos(self.ghosts[i]) = Pos(mid.ghosts[i])
          /\ self.ghosts[i].mode = mid.ghosts[i].mode
          /\ self.ghosts[i].released = mid.ghosts[i].released

(* C17, amended: a collision with a pursuer that is neither Frightened nor *)
(* Eaten takes one life and always respawns the player and the pursuers,   *)
(* with lives left or not; game_over is set exactly when no life is left   *)
(* (or the level is cleared in the same tick).                             *)
C17_RespawnAlways ==
  /\ Died =>
       /\ self.lives = mid.lives - 1
       /\ Respawned(self)
       /\ self.game_over <=> (self.lives <= 0 \/ self.pellet_count <= 0)
       /\ \E i \in Sharing : mid.ghosts[i].mode \notin {"frightened", "eaten"}
  /\ (Ticked /\ \E i \in Sharing : mid.ghosts[i].mode \notin {"frightened", "eaten"}) => Died
  /\ (mounted /\ self.lives <= 0) => self.game_over

(* the last life was lost away from the spawn tile and the player is back  *)
(* on it, the game over                                                    *)
C17_LastLifeRespawned ==
  /\ Died
  /\ self.lives = 0 /\ self.game_over /\ ~self.level_cleared
  /\ Player(mid) # <<14, 16>>
  /\ Respawned(self)
  /\ \E i \in GhostIds : i # 1 /\ mid.ghosts[i].released

(* the Frightened pursuers _resolve_collisions ate in the last tick before *)
(* it came to the pursuer that cost the life                               *)
EatenBeforeDeath ==
  LET deadly == {i \in Sharing : mid.ghosts[i].mode \notin {"frightened", "eaten"}}
  IN  {i \in Sharing : mid.ghosts[i].mode = "frightened" /\ \A k \in deadly : i < k}

(* C18: at the end of a tick in which the player died with lives left, the *)
(* player is on the spawn tile (14,16) facing left with pending direction  *)
(* left, combo is 0, every pursuer is on its home tile with countdown 0,   *)
(* Blinky alone is released, in the current global mode, the other three   *)
(* are in Home mode; maze, pellet counter, mode timer, global mode and     *)
(* bonus item are as before the collision, and so is the score but for the *)
(* pursuers eaten before the fatal one.                                    *)
C18_RespawnState ==
  (Died /\ self.lives > 0) =>
     /\ Player(self) = <<14, 16>>
     /\ self.player_dir = "left" /\ self.next_dir = "left"
     /\ self.ghost_combo = 0
     /\ \A i \in GhostIds :
          LET g == self.ghosts[i]
          IN  /\ Pos(g) = Home(g)
              /\ g.frightened_ticks = 0
              /\ g.released <=> g.name = "Blinky"
              /\ g.mode = IF g.name = "Blinky" THEN self.global_mode ELSE "home"
     /\ self.map = mid.map /\ self.pellet_count = mid.pellet_count
     /\ self.mode_timer = mid.mode_timer /\ self.global_mode = mid.global_mode
     /\ self.mode_cycle_index = mid.mode_cycle_index
     /\ self.fruit_visible = mid.fruit_visible
     /\ self.fruit_ticks_left = mid.fruit_ticks_left
     /\ self.fruit_spawned_once = mid.fruit_spawned_once
     /\ self.fruit_spawned_twice = mid.fruit_spawned_twice
     /\ self.score = mid.score + ComboAwards(mid.ghost_combo, Cardinality(EatenBeforeDeath))

(* a death with two lives left, Pinky out of the house: Blinky, chasing    *)
(* before, is back home in the global mode, which is still scatter         *)
C18_RespawnedScattering ==
  /\ Died
  /\ self.lives = 2
  /\ mid.ghosts[1].mode = "chase" /\ self.ghosts[1].mode = "scatter"
  /\ mid.ghosts[2].released /\ ~self.ghosts[2].released
  /\ Player(mid) # <<14, 16>> /\ Player(self) = <<14, 16>>
  /\ self.score > 0 /\ self.score = mid.score

(* the level as it is when nothing has happened in it yet *)
FreshLevel(s) ==
  /\ \A p \in Tiles : TileAt(s, p) = LEVEL[p[2] + 1][p[1] + 1]
  /\ s.pellet_count = 212 /\ s.initial_pellet_count = 212
  /\ s.pellet_count = CountOf(s.map, PELLET) + CountOf(s.map, POWER)
  /\ Player(s) = <<14, 16>> /\ s.player_dir = "left" /\ s.next_dir = "left"
  /\ Len(s.ghosts) = 4
  /\ <<s.ghosts[1].name, Pos(s.ghosts[1]), s.ghosts[1].mode, s.ghosts[1].released>>
       = <<"Blinky", <<14, 10>>, "chase", TRUE>>
  /\ <<s.ghosts[2].name, Pos(s.ghosts[2]), s.ghosts[2].mode, s.ghosts[2].released>>
       = <<"Pinky", <<13, 10>>, "home", FALSE>>
  /\ <<s.ghosts[3].name, Pos(s.ghosts[3]), s.ghosts[3].mode, s.ghosts[3].released>>
       = <<"Inky", <<14, 9>>, "home", FALSE>>
  /\ <<s.ghosts[4].name, Pos(s.ghosts[4]), s.ghosts[4].mode, s.ghosts[4].released>>
       = <<"Clyde", <<15, 10>>, "home", FALSE>>
  /\ \A i \in DOMAIN s.ghosts :
       /\ Home(s.ghosts[i]) = Pos(s.ghosts[i])
       /\ s.ghosts[i].direction = "left"
       /\ s.ghosts[i].frightened_ticks = 0
  /\ s.tick = 0 /\ s.mode_timer = 0 /\ s.mode_cycle_index = 0
  /\ s.global_mode = "scatter"
  /\ ~s.fruit_visible /\ s.fruit_ticks_left = 0
  /\ ~s.fruit_spawned_once /\ ~s.fruit_spawned_twice
  /\ s.ghost_combo = 0 /\ s.score = 0 /\ s.lives = 3
  /\ ~s.game_over /\ ~s.level_cleared

(* C19: a restart, from whatever state, leaves exactly the initial level   *)
(* state, the one on_mount left; a second restart changes nothing.         *)
C19_RestartIsFresh ==
  /\ op \in {"mount", "restart"} => FreshLevel(self)
  /\ op = "restart" =>
       /\ self.ghosts = init_ghosts
       /\ reset_level(self, TRUE) = self
       /\ FreshLevel(pre) => self = pre

(* a restart of a cleared level: game over, both fruit triggers fired, a   *)
(* score, pursuers frightened and the schedule advanced                    *)
C19_RestartedAfterClear ==
  /\ op = "restart"
  /\ pre.game_over /\ pre.level_cleared
  /\ pre.fruit_spawned_once /\ pre.fruit_spawned_twice
  /\ pre.score > 0 /\ pre.pellet_count = 0
  /\ pre.mode_cycle_index > 0
  /\ FreshLevel(self)

(* C20: the direction inputs that arrive between two ticks leave the       *)
(* screen as the last operation before them left it, but for the pending   *)
(* direction, which is the last input: the player has not moved or turned, *)
(* and the state is the one a single input, the last, would have left.     *)
(* The next tick turns the player to the pending direction if that is      *)
(* legal and keeps its facing if not.                                      *)
C20_SingleSlot ==
  /\ op \in Directions =>
       /\ inputs >= 1
       /\ self = [base EXCEPT !.next_dir = op]
       /\ Player(self) = Player(base) /\ self.player_dir = base.player_dir
  /\ op \notin Directions => (inputs = 0 /\ self = base)
  /\ Ticked =>
       mid.player_dir =
         IF can_move(pre.map, pre.player_x, pre.player_y, pre.next_dir, FALSE)
         THEN pre.next_dir ELSE pre.player_dir

(* a second input since the last tick, not the direction that was pending  *)
(* then nor the one the player faces                                       *)
C20_TwoInputs ==
  /\ op \in Directions
  /\ inputs = 2
  /\ base.tick > 0
  /\ op # base.next_dir /\ op # base.player_dir
  /\ self.next_dir = op

(* C21: in every tick of a running game each released pursuer that is not  *)
(* Frightened once its countdown is updated ends the movement step on a    *)
(* tile next to the one it started on.                                     *)
C21_AlwaysSteps ==
  Ticked =>
    \A i \in GhostIds :
       (mid.ghosts[i].released /\ mid.ghosts[i].mode # "frightened")
         => Manhattan(Pos(pre.ghosts[i]), Pos(mid.ghosts[i])) = 1

(* an eaten pursuer before the step of the last tick whose reverse         *)
(* direction was legal and led strictly nearer to its home tile than any   *)
(* other legal direction                                                   *)
ReverseNearest(i) ==
  LET a == pre.ghosts[i]
      back == reverse_dir(a.direction)
  IN  /\ Ticked
      /\ a.mode = "eaten"
      /\ can_move(mid.map, a.x, a.y, back, TRUE)
      /\ \A d \in Forward(mid, a) :
            Manhattan(Step(Pos(a), back), Home(a)) < Manhattan(Step(Pos(a), d), Home(a))

(* C22 as stated: a pursuer in Eaten mode whose reverse direction is legal *)
(* and gives the smallest distance to its home tile takes that direction.  *)
C22_EatenMayReverse ==
  \A i \in GhostIds :
     ReverseNearest(i) => mid.ghosts[i].direction = reverse_dir(pre.ghosts[i].direction)

(* C22: a pursuer in Eaten mode never ends its step facing opposite to the *)
(* facing it had, also when the reverse direction is legal and nearest to  *)
(* its home tile: it then steps to another legal tile or, with none, stays *)
(* where it is with its facing unchanged.                                  *)
C22_EatenNoReversal ==
  Ticked =>
    \A i \in GhostIds :
       LET a == pre.ghosts[i]
           b == mid.ghosts[i]
       IN  a.mode = "eaten" =>
             /\ b.direction # reverse_dir(a.direction)
             /\ Pos(b) # Step(Pos(a), reverse_dir(a.direction))
             /\ Forward(mid, a) = {} => (Pos(b) = Pos(a) /\ b.direction = a.direction)

(* an eaten pursuer stepped away from its home tile although the tile      *)
(* behind it was legal and nearer                                          *)
C22_SteppedAwayFromHome ==
  \E i \in GhostIds :
     /\ ReverseNearest(i)
     /\ Pos(mid.ghosts[i]) # Pos(pre.ghosts[i])
     /\ Manhattan(Pos(mid.ghosts[i]), Home(pre.ghosts[i]))
          > Manhattan(Pos(pre.ghosts[i]), Home(pre.ghosts[i]))

(* the Frightened pursuers on the player's tile when the collisions of the *)
(* last tick were resolved, and those that cost a life there               *)
FrightenedSharing == {i \in Sharing : mid.ghosts[i].mode = "frightened"}
Killers == {i \in Sharing : mid.ghosts[i].mode \notin {"frightened", "eaten"}}
FirstKiller == CHOOSE k \in Killers : \A j \in Killers : k <= j

(* C23 as stated: every Frightened pursuer that shares the player's tile   *)
(* at collision resolution is converted to Eaten, increments combo and is  *)
(* scored, whatever else is on the tile.                                   *)
C23_EveryFrightenedEaten ==
  Ticked =>
    /\ \A i \in FrightenedSharing : self.ghosts[i].mode = "eaten"
    /\ self.ghost_combo = mid.ghost_combo + Cardinality(FrightenedSharing)
    /\ self.score = mid.score + ComboAwards(mid.ghost_combo, Cardinality(FrightenedSharing))

(* C23: the pursuers on the player's tile are resolved in their fixed      *)
(* order.  With no pursuer there that is neither Frightened nor Eaten,     *)
(* every Frightened one is converted to Eaten, counted in combo and        *)
(* scored.  Otherwise only the Frightened ones before the first such       *)
(* pursuer are scored; that pursuer costs a life and ends the resolution:  *)
(* the Frightened ones after it earn nothing, and the respawn leaves no    *)
(* pursuer Eaten and combo 0.                                              *)
C23_EatenUntilDeath ==
  Ticked =>
    IF Killers = {}
    THEN /\ \A i \in GhostIds :
              self.ghosts[i] = IF i \in FrightenedSharing
                               THEN [mid.ghosts[i] EXCEPT !.mode = "eaten"]
                               ELSE mid.ghosts[i]
         /\ self.ghost_combo = mid.ghost_combo + Cardinality(FrightenedSharing)
         /\ self.score = mid.score + ComboAwards(mid.ghost_combo, Cardinality(FrightenedSharing))
         /\ self.lives = mid.lives
    ELSE LET before == {i \in FrightenedSharing : i < FirstKiller}
         IN  /\ self.score = mid.score + ComboAwards(mid.ghost_combo, Cardinality(before))
             /\ self.lives = mid.lives - 1
             /\ self.ghost_combo = 0
             /\ Respawned(self)

(* a chasing pursuer and, after it in the order, a Frightened one met the  *)
(* player on one tile: a life was lost and the Frightened one earned       *)
(* nothing                                                                 *)
C23_KillerBeforeFrightened ==
  /\ Ticked
  /\ Killers # {}
  /\ \E j \in FrightenedSharing : j > FirstKiller
  /\ self.score = mid.score
  /\ self.lives = mid.lives - 1

(* C24: a tick of a running game leaves the screen that these steps leave  *)
(* when taken one after the other: the player turns and moves, the tile it *)
(* stands on takes effect, the global mode schedule advances, the pursuers *)
(* are released, counted down and moved, the bonus item is updated and     *)
(* awarded, the collisions are resolved on the positions reached by then,  *)
(* and last the level-clear test is made.  A life is lost or a pursuer     *)
(* eaten only when a pursuer shares the player's tile after both moved.    *)
C24_TickOrder ==
  Ticked =>
    LET s1 == [pre EXCEPT !.tick = @ + 1]
        moved == player_step(s1)
        eaten == tile_effect(moved)
        scheduled == update_global_mode(eaten)
    IN  /\ \E g \in move_ghosts(scheduled, AnyChoice) :
             /\ mid = update_fruit(g)
             /\ self = check_level_clear(resolve_collisions(mid))
        /\ (self.lives < pre.lives \/ EatenNow # {}) => Sharing # {}
        /\ self.level_cleared <=> mid.pellet_count <= 0

(* the player and a chasing pursuer stepped onto each other's tile in one  *)
(* tick: they never shared a tile after both had moved, and no life was    *)
(* lost                                                                    *)
C24_PassedThrough ==
  /\ Ticked
  /\ self.lives = pre.lives
  /\ \E i \in GhostIds :
       /\ pre.ghosts[i].mode \in {"scatter", "chase"}
       /\ Pos(pre.ghosts[i]) = Player(mid)
       /\ Pos(mid.ghosts[i]) = Player(pre)
       /\ Player(mid) # Player(pre)
       /\ self.ghosts[i] = mid.ghosts[i]

(* the other phase *)
Flip(mode) == IF mode = "scatter" THEN "chase" ELSE "scatter"

RECURSIVE PhaseStart(_)
(* the ticks of a level that pass before the phase with index n begins *)
PhaseStart(n) == IF n = 0 THEN 0 ELSE PhaseStart(n - 1) + schedule[n]

(* C25: a level starts in Scattering with timer 0 and index 0.  A tick of  *)
(* a running game adds 1 to the timer; exactly when that makes the timer   *)
(* reach the schedule entry of the current index the phase flips, the      *)
(* timer restarts at 0 and the index advances by one, but not beyond the   *)
(* last entry; otherwise phase and index stay.  A tick of a finished game  *)
(* and a key press leave all three.  So until the final entry runs out the *)
(* phase with index n begins PhaseStart(n) ticks into the level, phases    *)
(* with an even index are Scattering and those with an odd one Chasing.    *)
C25_ModeSchedule ==
  /\ op \in {"mount", "restart"} =>
       (self.global_mode = "scatter" /\ self.mode_timer = 0 /\ self.mode_cycle_index = 0)
  /\ Ticked =>
       LET entry == schedule[pre.mode_cycle_index + 1]
       IN  IF pre.mode_timer + 1 = entry
           THEN /\ self.global_mode = Flip(pre.global_mode)
                /\ self.mode_timer = 0
                /\ self.mode_cycle_index = Min(pre.mode_cycle_index + 1, Len(schedule) - 1)
           ELSE /\ self.global_mode = pre.global_mode
                /\ self.mode_timer = pre.mode_timer + 1
                /\ self.mode_cycle_index = pre.mode_cycle_index
  /\ (op = "tick" /\ pre.game_over) =>
       /\ self.global_mode = pre.global_mode
       /\ self.mode_timer = pre.mode_timer
       /\ self.mode_cycle_index = pre.mode_cycle_index
  /\ op \in Directions =>
       /\ self.global_mode = base.global_mode
       /\ self.mode_timer = base.mode_timer
       /\ self.mode_cycle_index = base.mode_cycle_index
  /\ mounted =>
       /\ self.mode_cycle_index \in 0..(Len(schedule) - 1)
       /\ self.mode_timer \in 0..(schedule[self.mode_cycle_index + 1] - 1)
       /\ (~self.game_over /\ self.tick < PhaseStart(Len(schedule))) =>
            /\ self.tick = PhaseStart(self.mode_cycle_index) + self.mode_timer
            /\ self.global_mode = IF self.mode_cycle_index % 2 = 0 THEN "scatter" ELSE "chase"

(* the third flip, at tick 58 + 166 + 58, from Scattering to Chasing      *)
C25_ThirdFlip ==
  /\ Ticked
  /\ pre.mode_cycle_index = 2 /\ pre.mode_timer = 57 /\ pre.global_mode = "scatter"
  /\ self.mode_cycle_index = 3 /\ self.mode_timer = 0 /\ self.global_mode = "chase"
  /\ self.tick = 282

(* the release thresholds of Blinky, Pinky, Inky and Clyde *)
Thresholds == <<0, 40, 90, 140>>

(* C26: a pursuer that is not released is in Home mode on its home tile.   *)
(* In a tick of a running game whose counter is below its threshold it is  *)
(* left as it is; in the first tick whose counter has reached the          *)
(* threshold it becomes released, takes the global mode of that tick with  *)
(* countdown 0, whatever the others are, and steps to a neighbouring tile  *)
(* in that same tick.  So but for the state a death leaves, a pursuer is   *)
(* unreleased only while the counter is below its threshold.               *)
C26_ReleaseGating ==
  /\ mounted =>
       \A i \in GhostIds :
          /\ self.ghosts[i].release_tick = Thresholds[i]
          /\ ~self.ghosts[i].released =>
               /\ self.ghosts[i].mode = "home"
               /\ self.ghosts[i].frightened_ticks = 0
               /\ Pos(self.ghosts[i]) = Home(self.ghosts[i])
  /\ Ticked =>
       \A i \in GhostIds :
          LET a == pre.ghosts[i]
              b == mid.ghosts[i]
          IN  /\ a.released => b.released
              /\ ~a.released =>
                   IF mid.tick >= Thresholds[i]
                   THEN /\ b.released
                        /\ b.mode = mid.global_mode
                        /\ b.frightened_ticks = 0
                        /\ Manhattan(Pos(a), Pos(b)) = 1
                   ELSE b = a
              /\ (~self.ghosts[i].released /\ self.lives = mid.lives)
                   => self.tick < Thresholds[i]

(* Inky was released at tick 90 in the global mode and stepped out of its  *)
(* home tile while Pinky was Frightened                                    *)
C26_ReleasedAmongFrightened ==
  /\ Ticked
  /\ mid.tick = 90
  /\ ~pre.ghosts[3].released
  /\ mid.ghosts[3].released
  /\ mid.ghosts[3].mode = mid.global_mode
  /\ Pos(mid.ghosts[3]) # Home(mid.ghosts[3])
  /\ mid.ghosts[2].mode = "frightened"

(* C27: a pursuer is Frightened only with a countdown of 1..75, set to 75  *)
(* by a pickup.  In every tick of a running game the countdown of a        *)
(* pursuer that is Frightened when the pursuers are updated goes down by   *)
(* exactly 1, whether or not the pursuer moves in that tick; while the     *)
(* result is positive the pursuer stays Frightened, and when it is 0 the   *)
(* pursuer takes the global mode of that tick.  A pickup thus leaves 74    *)
(* at the end of its tick, the pursuer is Frightened through 74 updates    *)
(* and the 75th ends it.  Only the collision of that tick (eaten, or sent  *)
(* home by a death) changes it afterwards; no countdown runs in a          *)
(* finished game.                                                          *)
C27_FrightenedExpiry ==
  /\ mounted =>
       \A i \in GhostIds :
          /\ self.ghosts[i].frightened_ticks \in 0..(FRIGHTENED_TICKS - 1)
          /\ self.ghosts[i].mode = "frightened" => self.ghosts[i].frightened_ticks >= 1
  /\ Ticked =>
       \A i \in GhostIds :
          LET a == tile_effect(Landed).ghosts[i]
              b == mid.ghosts[i]
              c == self.ghosts[i]
          IN  /\ a.mode = "frightened" =>
                   /\ a.frightened_ticks = IF PowerPicked THEN FRIGHTENED_TICKS
                                           ELSE pre.ghosts[i].frightened_ticks
                   /\ b.frightened_ticks = a.frightened_ticks - 1
                   /\ b.mode = IF b.frightened_ticks = 0 THEN mid.global_mode ELSE "frightened"
                   /\ (b.mode = "frightened" /\ mid.tick % 2 = 1) => Pos(b) = Pos(a)
              /\ a.mode # "frightened" => b.mode # "frightened"
              /\ (b.mode = "frightened" /\ c # b) =>
                   \/ c = [b EXCEPT !.mode = "eaten"]
                   \/ (self.lives < mid.lives /\ c.mode \in {"home", mid.global_mode}
                         /\ c.frightened_ticks = 0)
  /\ (op = "tick" /\ pre.game_over) => self.ghosts = pre.ghosts

(* the countdown of a Frightened pursuer went from 1 to 0 and the pursuer  *)
(* took the global mode, 74 ticks after the tick of the pickup             *)
C27_Expired ==
  /\ Ticked
  /\ \E i \in GhostIds :
       /\ pre.ghosts[i].mode = "frightened"
       /\ pre.ghosts[i].frightened_ticks = 1
       /\ mid.ghosts[i].frightened_ticks = 0
       /\ mid.ghosts[i].mode = mid.global_mode
       /\ TileAt(self, <<1, 3>>) = EMPTY /\ PowerEaten(self) = 1
       /\ mid.tick = 65 + 74

(* the directions in which a pursuer can leave its tile *)
Legal(s, g) == {d \in Directions : can_move(s.map, g.x, g.y, d, TRUE)}

(* some targets, in and out of the maze *)
SampleTargets == {<<1, 1>>, <<26, 20>>, <<14, 10>>, <<-3, 30>>}

(* C28: a pursuer that is Frightened once its countdown is updated is left *)
(* where it is, facing as before, in a tick with an odd counter.  In a     *)
(* tick with an even counter it steps to a legal neighbouring tile and     *)
(* faces the way it went; every legal direction, the reverse of its        *)
(* facing included, is a possible outcome of the step whatever the target. *)
C28_FrightenedMoves ==
  Ticked =>
    \A i \in GhostIds :
       LET a == tile_effect(Landed).ghosts[i]
           e == countdown(mid, a)
           b == mid.ghosts[i]
       IN  e.mode = "frightened" =>
             IF mid.tick % 2 = 1 THEN b = e
             ELSE /\ \E d \in Legal(mid, e) :
                       b = [e EXCEPT !.x = Step(Pos(e), d)[1],
                                     !.y = Step(Pos(e), d)[2],
                                     !.direction = d]
                  /\ \A t \in SampleTargets :
                       {g.direction : g \in step_ghost_toward(mid.map, e, t, "any")}
                         = Legal(mid, e)

(* a Frightened pursuer with more than one way to go turned round in a     *)
(* tick with an even counter                                               *)
C28_TurnedRound ==
  /\ Ticked
  /\ mid.tick % 2 = 0
  /\ \E i \in GhostIds :
       /\ pre.ghosts[i].mode = "frightened"
       /\ mid.ghosts[i].mode = "frightened"
       /\ mid.ghosts[i].direction = reverse_dir(pre.ghosts[i].direction)
       /\ Pos(mid.ghosts[i]) = Step(Pos(pre.ghosts[i]), mid.ghosts[i].direction)
       /\ Cardinality(Legal(mid, pre.ghosts[i])) >= 2

(* the place of a direction in the order Up, Left, Down, Right *)
Rank(d) == CASE d = "up" -> 1 [] d = "left" -> 2 [] d = "down" -> 3 [] d = "right" -> 4

(* the screen of the last tick when the pursuers were about to be updated  *)
BeforeGhosts == tile_effect(Landed)

(* pursuer i of the last tick when it was about to step, released and      *)
(* counted down, and the pursuers as the ones before it had left them      *)
AboutToStep(i) == countdown(BeforeGhosts, release(BeforeGhosts, BeforeGhosts.ghosts[i]))
GhostsAt(i) == [j \in GhostIds |-> IF j < i THEN mid.ghosts[j] ELSE BeforeGhosts.ghosts[j]]

(* direction d is the choice among the directions ds from tile p for       *)
(* target t: no other leads nearer, and none as near comes earlier         *)
Greedy(d, ds, p, t) ==
  /\ d \in ds
  /\ \A e \in ds :
       \/ Manhattan(Step(p, e), t) > Manhattan(Step(p, d), t)
       \/ (Manhattan(Step(p, e), t) = Manhattan(Step(p, d), t) /\ Rank(d) <= Rank(e))

(* C29: a released pursuer that is not Frightened when it steps, and has a *)
(* legal direction other than the reverse of its facing, goes one tile in  *)
(* the direction among those that leads nearest to its target by Manhattan *)
(* distance, the first in the order Up, Left, Down, Right among equally    *)
(* near ones, and then faces that way.                                     *)
C29_GreedySelection ==
  Ticked =>
    \A i \in GhostIds :
       LET e == AboutToStep(i)
           b == mid.ghosts[i]
       IN  (e.released /\ e.mode # "frightened" /\ Forward(mid, e) # {}) =>
             \A t \in ghost_targets(BeforeGhosts, GhostsAt(i), e) :
                /\ Greedy(b.direction, Forward(mid, e), Pos(e), t)
                /\ Pos(b) = Step(Pos(e), b.direction)

(* a chasing pursuer had two directions equally near to its target, and    *)
(* nearer than the rest, and took Left before Down                         *)
C29_TieBroken ==
  /\ Ticked
  /\ \E i \in GhostIds :
       LET e == AboutToStep(i)
       IN  /\ e.released /\ e.mode = "chase"
           /\ {"left", "down"} \subseteq Forward(mid, e)
           /\ \A t \in ghost_targets(BeforeGhosts, GhostsAt(i), e) :
                 /\ Manhattan(Step(Pos(e), "left"), t) = Manhattan(Step(Pos(e), "down"), t)
                 /\ \A d \in Forward(mid, e) :
                       Manhattan(Step(Pos(e), d), t) >= Manhattan(Step(Pos(e), "left"), t)
           /\ mid.ghosts[i].direction = "left"
           /\ Pos(mid.ghosts[i]) = Step(Pos(e), "left")

(* the point n tiles from p in direction d, and the reflection of a        *)
(* through p                                                               *)
Ahead(p, d, n) == <<p[1] + n * dir_delta(d)[1], p[2] + n * dir_delta(d)[2]>>
Reflect(p, a) == <<p[1] + (p[1] - a[1]), p[2] + (p[2] - a[2])>>

(* Inky was released and Chasing when it was about to step in the last     *)
(* tick, with a direction to go                                            *)
InkyChased ==
  /\ Ticked
  /\ AboutToStep(3).released
  /\ AboutToStep(3).mode = "chase"
  /\ Forward(mid, AboutToStep(3)) # {}

(* Inky's target with the point taken 2 tiles ahead of Blinky along        *)
(* Blinky's facing, and with the point taken 2 tiles ahead of the player   *)
(* along the player's facing; Blinky has moved by then, and the player     *)
FlankFromBlinky ==
  Reflect(Ahead(Pos(mid.ghosts[1]), mid.ghosts[1].direction, 2), Pos(mid.ghosts[1]))
FlankFromPlayer ==
  Reflect(Ahead(Player(mid), mid.player_dir, 2), Pos(mid.ghosts[1]))

(* C30 as stated: Inky, Chasing, steps toward P + (P - A) where A is       *)
(* Blinky's position and P the tile 2 ahead of Blinky along Blinky's       *)
(* facing.                                                                 *)
C30_FlankAheadOfBlinky ==
  InkyChased =>
    Greedy(mid.ghosts[3].direction, Forward(mid, AboutToStep(3)), Pos(AboutToStep(3)),
           FlankFromBlinky)

(* C30: Inky, Chasing, steps toward P + (P - A) where A is Blinky's        *)
(* position and P the tile 2 ahead of the player along the player's        *)
(* facing, both as they are when Inky is updated.                          *)
C30_FlankAheadOfPlayer ==
  InkyChased =>
    /\ ghost_targets(BeforeGhosts, GhostsAt(3), AboutToStep(3)) = {FlankFromPlayer}
    /\ Greedy(mid.ghosts[3].direction, Forward(mid, AboutToStep(3)), Pos(AboutToStep(3)),
              FlankFromPlayer)
    /\ Pos(mid.ghosts[3]) = Step(Pos(AboutToStep(3)), mid.ghosts[3].direction)

(* Inky, Chasing, took a direction that leads farther from the point       *)
(* reckoned from Blinky's facing than another it could take                *)
C30_AwayFromBlinkyPoint ==
  /\ InkyChased
  /\ \E d \in Forward(mid, AboutToStep(3)) :
       Manhattan(Step(Pos(AboutToStep(3)), d), FlankFromBlinky)
         < Manhattan(Pos(mid.ghosts[3]), FlankFromBlinky)
  /\ FlankFromPlayer # FlankFromBlinky

(* Clyde was released and Chasing when it was about to step in the last    *)
(* tick, with a direction to go                                            *)
ClydeChased ==
  /\ Ticked
  /\ AboutToStep(4).released
  /\ AboutToStep(4).mode = "chase"
  /\ Forward(mid, AboutToStep(4)) # {}

(* Clyde's target: the player's tile from farther than 8 tiles, else the   *)
(* corner (1, height - 2); the player has moved when Clyde is updated      *)
ClydeTarget ==
  IF Manhattan(Pos(AboutToStep(4)), Player(mid)) > 8
  THEN Player(mid)
  ELSE <<1, height - 2>>

(* C31: Clyde, Chasing, steps toward the player's tile when its Manhattan  *)
(* distance to the player is more than 8 and toward the corner             *)
(* (1, height - 2) when it is 8 or less.                                   *)
C31_ClydeTargeting ==
  ClydeChased =>
    /\ ghost_targets(BeforeGhosts, GhostsAt(4), AboutToStep(4)) = {ClydeTarget}
    /\ Greedy(mid.ghosts[4].direction, Forward(mid, AboutToStep(4)), Pos(AboutToStep(4)),
              ClydeTarget)
    /\ Pos(mid.ghosts[4]) = Step(Pos(AboutToStep(4)), mid.ghosts[4].direction)

(* Clyde, Chasing at distance 8 from the player, stepped toward its corner *)
C31_AtEight ==
  /\ ClydeChased
  /\ Manhattan(Pos(AboutToStep(4)), Player(mid)) = 8
  /\ Manhattan(Pos(mid.ghosts[4]), <<1, height - 2>>)
       < Manhattan(Pos(AboutToStep(4)), <<1, height - 2>>)

(* the tile next to p in direction d for the player: off either end of the *)
(* tunnel row it is the tile at the other end                              *)
PlayerStep(p, d) ==
  LET q == Step(p, d)
  IN  IF q[2] = TUNNEL_ROW /\ q[1] < 0 THEN <<width - 1, q[2]>>
      ELSE IF q[2] = TUNNEL_ROW /\ q[1] >= width THEN <<0, q[2]>>
      ELSE q

(* the player of screen s may go in direction d *)
PlayerLegal(s, d) == can_move(s.map, s.player_x, s.player_y, d, FALSE)

(* C32: in a tick of a running game the facing becomes the queued          *)
(* direction if a move that way is legal and is kept otherwise; the queued *)
(* direction is left as it is either way; the player then goes one tile    *)
(* along its facing if that is legal and stays on its tile otherwise.      *)
(* Every reached screen has such a next screen; until the collisions of    *)
(* the tick are resolved nothing else moves or turns the player.           *)
C32_DirectionResolution ==
  /\ Ticked =>
       LET facing == IF PlayerLegal(pre, pre.next_dir) THEN pre.next_dir ELSE pre.player_dir
       IN  /\ mid.player_dir = facing
           /\ mid.next_dir = pre.next_dir
           /\ Player(mid) = IF PlayerLegal(pre, facing)
                            THEN PlayerStep(Player(pre), facing)
                            ELSE Player(pre)
           /\ (~PlayerLegal(pre, pre.next_dir) /\ ~PlayerLegal(pre, pre.player_dir)) =>
                (Player(mid) = Player(pre) /\ mid.player_dir = pre.player_dir)
           /\ self.lives = mid.lives =>
                (Player(self) = Player(mid) /\ self.player_dir = mid.player_dir
                   /\ self.next_dir = mid.next_dir)
  /\ (mounted /\ ~self.game_over) => tick_moves(self, AnyChoice) # {}

(* the queued direction was not legal: the player kept its facing, went on *)
(* along it, and the queued direction is still pending                     *)
C32_PendingKept ==
  /\ Ticked
  /\ pre.next_dir # pre.player_dir
  /\ ~PlayerLegal(pre, pre.next_dir)
  /\ mid.player_dir = pre.player_dir
  /\ Player(mid) # Player(pre)
  /\ self.next_dir = pre.next_dir
  /\ self.lives = pre.lives

(* a trigger of the bonus item fired in the last tick *)
Appeared ==
  /\ Ticked
  /\ \/ mid.fruit_spawned_once # pre.fruit_spawned_once
     \/ mid.fruit_spawned_twice # pre.fruit_spawned_twice

(* the item was on show when the last tick updated it, with this countdown *)
OnShow == Ticked /\ (pre.fruit_visible \/ Appeared)
ShowLeft == IF Appeared THEN FRUIT_TICKS ELSE pre.fruit_ticks_left

(* the points the last tick gave for the bonus item: the score after the   *)
(* item's update less the score when the player had eaten what was on its  *)
(* tile                                                                    *)
BonusPoints == mid.score - BeforeGhosts.score

(* C33: an appearance shows the item with a countdown of 80.  In every     *)
(* tick of a running game in which the item is on show, the tick of the    *)
(* appearance included, the countdown drops by 1; then, if the player is   *)
(* on the item's tile, the item is hidden and 300 points are given, else   *)
(* no points are given and the item is hidden exactly when the countdown   *)
(* has reached 0.  An item that is not on show gives no points, keeps its  *)
(* countdown and comes on show only by an appearance; the rest of the tick *)
(* and a finished game leave the item alone.                               *)
C33_FruitVisibility ==
  /\ Ticked =>
       /\ IF OnShow
          THEN /\ mid.fruit_ticks_left = ShowLeft - 1
               /\ IF Player(mid) = fruit_pos
                  THEN ~mid.fruit_visible /\ BonusPoints = 300
                  ELSE /\ BonusPoints = 0
                       /\ mid.fruit_visible <=> mid.fruit_ticks_left > 0
          ELSE /\ ~mid.fruit_visible
               /\ mid.fruit_ticks_left = pre.fruit_ticks_left
               /\ BonusPoints = 0
       /\ self.fruit_visible = mid.fruit_visible
       /\ self.fruit_ticks_left = mid.fruit_ticks_left
  /\ (op = "tick" /\ pre.game_over) =>
       /\ self.fruit_visible = pre.fruit_visible
       /\ self.fruit_ticks_left = pre.fruit_ticks_left
       /\ self.score = pre.score
  /\ mounted =>
       /\ self.fruit_visible => self.fruit_ticks_left \in 1..(FRUIT_TICKS - 1)
       /\ self.fruit_visible => self.fruit_spawned_once

(* the player stepped onto the tile of the item on show: 300 points, and   *)
(* the item is hidden with countdown left                                  *)
C33_Eaten ==
  /\ OnShow
  /\ pre.fruit_visible
  /\ Player(mid) = fruit_pos
  /\ BonusPoints = 300
  /\ ~self.fruit_visible
  /\ self.fruit_ticks_left > 0

(* the ghost _move_ghosts leaves of the eaten ghost i when nothing else    *)
(* happens to it: its step depends on its tile and facing only             *)
RECURSIVE EatenWalk(_, _, _)
EatenWalk(s, i, seen) ==
  LET g == s.ghosts[i]
      at == <<g.x, g.y, g.direction>>
  IN  IF g.mode # "eaten" THEN TRUE
      ELSE IF at \in seen THEN FALSE
      ELSE LET h == CHOOSE n \in move_ghost(s, s.ghosts, i, AnyChoice) : TRUE
           IN  EatenWalk([s EXCEPT !.ghosts[i] = h], i, seen \cup {at})

(* C34: every eaten ghost gets home: walking on as _move_ghosts makes it   *)
(* walk, with no death and no restart in between, it reaches its home tile *)
(* and takes the global mode before it comes back to a tile and facing it  *)
(* has already had                                                         *)
C34_EatenArrives ==
  mounted => \A i \in 1..Len(self.ghosts) : EatenWalk(self, i, {})


(* the ghosts that stepped onto the tile the player left while the player  *)
(* stepped onto theirs                                                     *)
Crossing ==
  {i \in GhostIds : /\ Player(mid) # Player(pre)
                    /\ Pos(pre.ghosts[i]) = Player(mid)
                    /\ Pos(mid.ghosts[i]) = Player(pre)}

(* C35: in a tick of a running game nothing is lost or eaten before both   *)
(* the player and the pursuers have moved; after that a pursuer turns      *)
(* Eaten only if it is then Frightened on the player's tile, a life is     *)
(* lost only if a pursuer that is neither Frightened nor Eaten is then on  *)
(* the player's tile, and with no pursuer on that tile lives, combo,       *)
(* pursuers and player stay as the moves left them.  A pursuer that        *)
(* exchanged tiles with the player is not eaten, and costs no life unless  *)
(* another pursuer is on the player's tile.                                *)
C35_CollisionOnSharedTile ==
  Ticked =>
    /\ mid.lives = pre.lives
    /\ \A i \in GhostIds : mid.ghosts[i].mode = "eaten" => pre.ghosts[i].mode = "eaten"
    /\ \A i \in GhostIds :
         (self.ghosts[i].mode = "eaten" /\ mid.ghosts[i].mode # "eaten")
           => i \in FrightenedSharing
    /\ self.lives < mid.lives => Killers # {}
    /\ Sharing = {} =>
         /\ self.lives = pre.lives
         /\ self.ghosts = mid.ghosts
         /\ self.ghost_combo = mid.ghost_combo
         /\ self.score = mid.score
         /\ Player(self) = Player(mid)
    /\ \A i \in Crossing \ Sharing :
         /\ self.ghosts[i].mode = "eaten" => mid.ghosts[i].mode = "eaten"
         /\ Killers = {} => (self.lives = pre.lives /\ self.ghosts[i] = mid.ghosts[i])

(* the player and a frightened pursuer exchanged tiles in one tick: the    *)
(* pursuer is still frightened and nothing was scored for it               *)
C35_CrossedFrightened ==
  /\ Ticked
  /\ Sharing = {}
  /\ \E i \in Crossing :
       /\ mid.ghosts[i].mode = "frightened"
       /\ self.ghosts[i].mode = "frightened"
  /\ self.score = mid.score
  /\ self.lives = pre.lives


(* C36: lives is between 0 and 3; level_cleared is set exactly when the    *)
(* pellet counter is 0 and the level has seen a tick; game_over is set     *)
(* exactly when lives is 0 or level_cleared is set, so level_cleared is    *)
(* never set without game_over.                                            *)
C36_RoundFlags ==
  /\ self.lives \in 0..START_LIVES
  /\ self.level_cleared <=> (self.pellet_count = 0 /\ self.tick >= 1)
  /\ self.game_over <=> (self.lives = 0 \/ self.level_cleared)
  /\ self.level_cleared => self.game_over

(* the tick that eats the last pellet, with lives to spare *)
C36_ClearedAlive ==
  /\ Ticked
  /\ pre.pellet_count = 1 /\ ~pre.level_cleared
  /\ self.pellet_count = 0 /\ self.level_cleared /\ self.game_over
  /\ self.lives \in 1..START_LIVES
  /\ self.tick >= 1


(* the screen before the collisions with every pursuer after the first     *)
(* one that costs a life put on the player's tile in the given mode        *)
LaterGhostsAs(mode) ==
  [mid EXCEPT !.ghosts =
     [i \in DOMAIN mid.ghosts |->
        IF i > FirstKiller
        THEN [mid.ghosts[i] EXCEPT !.x = mid.player_x, !.y = mid.player_y, !.mode = mode]
        ELSE mid.ghosts[i]]]

(* C37: a tick of a running game takes exactly one life when one or more   *)
(* pursuers that are neither Frightened nor Eaten are on the player's tile *)
(* after the moves, and none otherwise.  The pursuers after the first of   *)
(* them in the fixed order are not examined: the tick ends the same way    *)
(* whether they are on the player's tile or not, Frightened or Chasing.    *)
C37_OneLifePerTick ==
  Ticked =>
    /\ self.lives = pre.lives - (IF Killers = {} THEN 0 ELSE 1)
    /\ Killers # {} =>
         \A mode \in {"frightened", "chase", "scatter", "home"} :
            self = check_level_clear(resolve_collisions(LaterGhostsAs(mode)))

(* two pursuers that are neither Frightened nor Eaten were on the player's *)
(* tile after the moves and one life was lost                              *)
C37_TwoKillers ==
  /\ Ticked
  /\ Cardinality(Killers) >= 2
  /\ \A i \in Killers : mid.ghosts[i].released
  /\ self.lives = pre.lives - 1


(* the pursuers that can still be eaten before the next combo reset *)
Edible(s) == {i \in DOMAIN s.ghosts : s.ghosts[i].mode = "frightened"}

(* C38: the combo counter is between 0 and 4, and together with the number *)
(* of Frightened pursuers it never exceeds 4.  A pursuer becomes           *)
(* Frightened only in a tick that picks up a power pellet, which resets    *)
(* the counter before the collisions; it becomes Eaten only from           *)
(* Frightened, and an Eaten pursuer never turns Frightened again without   *)
(* such a pickup.  So between two resets no pursuer is eaten twice, and no *)
(* eaten pursuer awards more than 1600 points.                             *)
C38_ComboBound ==
  /\ self.ghost_combo \in 0..4
  /\ self.ghost_combo + Cardinality(Edible(self)) <= 4
  /\ op \in {"mount", "tick", "restart"} =>
       \A i \in GhostIds :
          /\ (self.ghosts[i].mode = "frightened" /\ pre.ghosts[i].mode # "frightened")
               => (PowerPicked /\ mid.ghost_combo = 0 /\ pre.ghosts[i].mode # "eaten")
          /\ (self.ghosts[i].mode = "eaten" /\ pre.ghosts[i].mode # "eaten")
               => (Ticked /\ mid.ghosts[i].mode = "frightened")
          /\ (pre.ghosts[i].mode = "eaten" /\ self.ghosts[i].mode # "eaten")
               => self.ghosts[i].mode \in {"scatter", "chase", "home"}
  /\ Ticked =>
       /\ mid.ghost_combo + Cardinality(FrightenedSharing) <= 4
       /\ self.score - mid.score <= ComboAwards(mid.ghost_combo, Cardinality(FrightenedSharing))
       /\ \A n \in 1..Cardinality(FrightenedSharing) : ComboAward(mid.ghost_combo + n) <= 1600

(* a pursuer eaten in the running window came home and took the global     *)
(* mode while another pursuer was still Frightened                         *)
C38_BackWhileOthersEdible ==
  /\ Ticked
  /\ self.ghost_combo >= 1
  /\ \E i \in GhostIds :
       /\ pre.ghosts[i].mode = "eaten"
       /\ self.ghosts[i].mode \in {"scatter", "chase"}
       /\ self.ghosts[i].frightened_ticks = 0
  /\ Edible(self) # {}


(* C39: a pursuer is released exactly when its mode is not Home.           *)
C39_ReleasedIffNotHome ==
  \A i \in DOMAIN self.ghosts :
     /\ self.ghosts[i].released <=> self.ghosts[i].mode # "home"
     /\ self.ghosts[i].mode \in {"home", "scatter", "chase", "frightened", "eaten"}

(* a death sent a pursuer that was out of the house back to Home mode with *)
(* the released flag cleared, and left the first pursuer released in the   *)
(* global mode                                                             *)
C39_SentHome ==
  /\ Died
  /\ \E i \in GhostIds :
       /\ mid.ghosts[i].released /\ mid.ghosts[i].mode \in {"frightened", "eaten", "scatter", "chase"}
       /\ ~self.ghosts[i].released /\ self.ghosts[i].mode = "home"
  /\ self.ghosts[1].released /\ self.ghosts[1].mode = self.global_mode


Grid == (0..(width - 1)) \X (0..(height - 1))

(* where the player and the pursuers of a screen may be *)
OnOpenTiles(s) ==
  /\ Player(s) \in Grid
  /\ TileAt(s, Player(s)) \notin {WALL, GATE}
  /\ \A i \in DOMAIN s.ghosts :
       /\ Pos(s.ghosts[i]) \in Grid
       /\ TileAt(s, Pos(s.ghosts[i])) # WALL

(* what a step may do to the maze: on_mount and a restart lay out LEVEL    *)
(* again, a key press leaves the maze, and a tick leaves it or empties the *)
(* pellet or power pellet on the tile the player has moved to              *)
MazeStep ==
  IF op' \in {"mount", "restart"} THEN self'.map = InitialMap
  ELSE IF op' = "tick"
  THEN \/ self'.map = pre'.map
       \/ /\ ~pre'.game_over
          /\ TileAt(pre', Player(mid')) \in {PELLET, POWER}
          /\ self'.map = [pre'.map EXCEPT ![mid'.player_y][mid'.player_x] = EMPTY]
  ELSE self'.map = self.map

(* C40: the player and every pursuer are inside the grid and not on a wall *)
(* tile, and the player is not on the gate.  A level starts with the maze  *)
(* of LEVEL; after that a tile changes only in a tick, only on the tile    *)
(* the player has moved to, and only from pellet or power pellet to empty. *)
C40_PositionsAndMaze == [](OnOpenTiles(self)) /\ [][MazeStep]_vars

(* the player stepped onto a tile of the house, which is as it was        *)
C40_InHouse ==
  /\ Ticked
  /\ Player(mid) # Player(pre)
  /\ TileAt(pre, Player(mid)) = HOUSE
  /\ TileAt(self, Player(mid)) = HOUSE
  /\ self.map = pre.map

====
